---- MODULE Spec2Model ----
(***************************************************************************)
(* A model of the COBOL analysis pipeline of this repository:              *)
(*   CobolTokenizer  (src/CobolTokenizer.py)  source lines -> tokens       *)
(*   CobolParser     (src/CobolParser.py)     tokens -> CobolProgram       *)
(*   CobolAnalyzer   (src/CobolAnalyzer.py)   programs -> call graph,      *)
(*                                            resource-usage index         *)
(*                                                                         *)
(* Text is modelled as a sequence of one-character strings, so that the    *)
(* regular expressions, str.lower/upper/strip/endswith and os.path         *)
(* functions of the code are computed character by character.  Str turns   *)
(* such a sequence into a TLA+ string where the code compares or stores    *)
(* whole strings.                                                          *)
(*                                                                         *)
(* The specifications share the variables:                                 *)
(*   Spec       a CobolAnalyzer receiving analyze_program calls            *)
(*   SpecQuery  a CobolAnalyzer receiving analyze_program calls and        *)
(*              queries                                                    *)
(*   SpecDir    a CobolAnalyzer running analyze_directory                  *)
(*   SpecParse  CobolTokenizer.tokenize followed by the parser's passes    *)
(*   SpecTokenize  CobolTokenizer.tokenize alone, run to its end           *)
(*   SpecScope  the parser's scope pass on a sequence of tokens            *)
(***************************************************************************)
EXTENDS Integers, Sequences, FiniteSets, TLC

VARIABLES
    \* CobolAnalyzer fields (src/CobolAnalyzer.py:20-22)
    analyzed_programs,   \* dict: program name -> CobolProgram
    call_graph,          \* dict: program name -> set of callee names
    resource_usage,      \* dict: "type:name" -> set of program names
    \* the last call made on the analyzer and how it ended
    call,                \* [op, path, file]: the operation and its arguments
    result,              \* [status, program]: returned value or raised error
    \* history kept for the properties only
    observed_calls,      \* <<caller, target>> of every program version analyzed
    program_order,       \* key order of analyzed_programs (first registration)
    \* analyze_directory (src/CobolAnalyzer.py:57-80)
    dir_pc,              \* "idle" | "analyzing" | "returned" | "raised"
    dir_tree,            \* the directory tree walked, in os.walk order
    cobol_files,         \* the collected files not yet analyzed
    dir_done,            \* the collected files already analyzed, in order
    dir_start,           \* the analyzer fields when analyze_directory began
    \* CobolParser.parse of one source text (src/CobolParser.py:44-51)
    source,              \* the lines of the source text (source_code.splitlines())
    parse_pc,            \* "idle" | "tokenize" | "divisions" | "files" | "calls" |
                         \* "resources" | "maps" | "done" | "extracted"
    \* CobolTokenizer (src/CobolTokenizer.py:82-84, 96, 125-127)
    current_line,        \* self.current_line: the number of the line being scanned
    current_column,      \* self.current_column
    line_content,        \* _tokenize_line's `line`
    position,            \* _tokenize_line's `position`
    tokens,              \* the tokens produced so far
    \* CobolParser._parse_divisions (src/CobolParser.py:75-83)
    token_index,         \* the number of tokens the loop has gone through (`i`)
    current_division,    \* the open Division, NoDivision for None
    current_section,     \* the open Section, NoSection for None
    current_paragraph,   \* the open Paragraph, NoParagraph for None
    \* CobolProgram fields filled by the passes (src/main.py:130-142)
    divisions,           \* program.divisions: name -> Division
    data_items,          \* program.data_items: name -> DataItem
    program_files,       \* program.files
    program_calls,       \* program.calls
    program_resources,   \* program.resources
    maps_used,           \* program.maps_used
    \* CobolLogicExtractor.extract_logic_for_llm (src/CobolLogicExtractor.py)
    data_structures      \* logic_data["data_structures"]

analyzerVars == <<analyzed_programs, call_graph, resource_usage>>
callVars == <<call, result>>
historyVars == <<observed_calls, program_order>>
dirVars == <<dir_pc, dir_tree, cobol_files, dir_done, dir_start>>
tokenizerVars == <<current_line, current_column, line_content, position, tokens>>
scopeVars == <<token_index, current_division, current_section, current_paragraph,
               divisions, data_items>>
programVars == <<scopeVars, program_files, program_calls, program_resources, maps_used,
                 data_structures>>
parseVars == <<source, parse_pc, tokenizerVars, programVars>>
vars == <<analyzerVars, callVars, historyVars, dirVars, parseVars>>

----------------------------------------------------------------------------
(* Characters and strings *)

UpperChars == <<"A","B","C","D","E","F","G","H","I","J","K","L","M",
                "N","O","P","Q","R","S","T","U","V","W","X","Y","Z">>
LowerChars == <<"a","b","c","d","e","f","g","h","i","j","k","l","m",
                "n","o","p","q","r","s","t","u","v","w","x","y","z">>

Range(s) == { s[i] : i \in DOMAIN s }

\* str.lower / str.upper on one character
CharLower(c) ==
    IF \E i \in DOMAIN UpperChars : UpperChars[i] = c
    THEN LowerChars[CHOOSE i \in DOMAIN UpperChars : UpperChars[i] = c]
    ELSE c
CharUpper(c) ==
    IF \E i \in DOMAIN LowerChars : LowerChars[i] = c
    THEN UpperChars[CHOOSE i \in DOMAIN LowerChars : LowerChars[i] = c]
    ELSE c

Lower(s) == [ i \in DOMAIN s |-> CharLower(s[i]) ]
Upper(s) == [ i \in DOMAIN s |-> CharUpper(s[i]) ]

\* the string whose characters are the elements of s
RECURSIVE Str(_)
Str(s) == IF s = <<>> THEN "" ELSE Head(s) \o Str(Tail(s))

\* s[from..]: Python's s[from-1:]
Drop(s, n) == SubSeq(s, n + 1, Len(s))

\* str.endswith(suffix)
EndsWith(s, suffix) ==
    /\ Len(suffix) <= Len(s)
    /\ SubSeq(s, Len(s) - Len(suffix) + 1, Len(s)) = suffix

\* a dict with key k set to v
Put(f, k, v) == [ x \in DOMAIN f \cup {k} |-> IF x = k THEN v ELSE f[x] ]

EmptyDict == << >>

----------------------------------------------------------------------------
(* Paths: os.path.basename, os.path.splitext, os.path.join *)

Slash == "/"
Dot == "."

\* os.path.basename: what follows the last "/"
Basename(path) ==
    LET seps == { i \in DOMAIN path : path[i] = Slash }
    IN  IF seps = {} THEN path
        ELSE Drop(path, CHOOSE i \in seps : \A j \in seps : j <= i)

\* os.path.splitext(name)[0]: the name up to its last "." when a character
\* other than "." precedes that dot, the whole name otherwise
SplitextRoot(name) ==
    LET dots == { i \in DOMAIN name : name[i] = Dot }
    IN  IF dots = {} THEN name
        ELSE LET last == CHOOSE i \in dots : \A j \in dots : j <= i
             IN  IF \E j \in 1..(last - 1) : name[j] # Dot
                 THEN SubSeq(name, 1, last - 1)
                 ELSE name

\* os.path.join(root, file)
PathJoin(root, file) ==
    IF root = <<>> THEN file
    ELSE IF root[Len(root)] = Slash THEN root \o file
    ELSE root \o <<Slash>> \o file

\* program_name = os.path.splitext(os.path.basename(source_path))[0]
ProgramName(source_path) == Str(SplitextRoot(Basename(source_path)))

----------------------------------------------------------------------------
(* Source files as the analyzer sees them.  A file is either unreadable    *)
(* (open() raises) or holds source text; for the analyzer only the calls  *)
(* and resources the parser extracts from that text matter, so a readable  *)
(* file is given by those two lists.                                       *)

Unreadable == [ readable |-> FALSE, calls |-> <<>>, resources |-> <<>> ]

StaticCall(t) == [ target |-> t, is_dynamic |-> FALSE ]
DynamicCall(t) == [ target |-> t, is_dynamic |-> TRUE ]
SqlCustomer == [ type |-> "SQL", name |-> "CUSTOMER", operation |-> "SELECT" ]
CicsUnknown == [ type |-> "CICS", name |-> "UNKNOWN", operation |-> "SEND" ]

SourceFile(calls, resources) ==
    [ readable |-> TRUE, calls |-> calls, resources |-> resources ]

\* the file contents the calls are made with
FileContents ==
    { SourceFile(<<>>, <<>>),
      SourceFile(<<StaticCall("B")>>, <<SqlCustomer>>),
      SourceFile(<<StaticCall("A")>>, <<>>),
      SourceFile(<<DynamicCall("SUBPROG"), StaticCall("B"), StaticCall("SUBPROG")>>,
                 <<CicsUnknown, CicsUnknown>>) }

PathA_CBL == <<"A", ".", "C", "B", "L">>
PathA_cob == <<"v", "2", "/", "A", ".", "c", "o", "b">>
PathB_cob == <<"B", ".", "c", "o", "b">>

\* the paths analyze_program is called with
ProgramPaths == { PathA_CBL, PathA_cob, PathB_cob }

----------------------------------------------------------------------------
(* CobolParser.parse, as far as the analyzer depends on it *)

NoProgram == [ name |-> "", source_path |-> <<>>, calls |-> <<>>, resources |-> <<>> ]

Raised == [ status |-> "error", program |-> NoProgram ]
Returned(program) == [ status |-> "ok", program |-> program ]

\* mutant of Parse: the read error is swallowed and an empty program returned
ParseSwallowsError(source_path, file) ==
    Returned([ name |-> ProgramName(source_path),
               source_path |-> source_path,
               calls |-> file.calls,
               resources |-> file.resources ])

\* parse(source_path): the read raises for an unreadable file; otherwise the
\* program is named after the path and holds what the passes extracted
Parse(source_path, file) ==
    IF ~file.readable
    THEN Raised
    ELSE Returned([ name |-> ProgramName(source_path),
                    source_path |-> source_path,
                    calls |-> file.calls,
                    resources |-> file.resources ])

CallTargets(program) == { program.calls[i].target : i \in DOMAIN program.calls }

\* resource_key = f"{resource.type}:{resource.name}"
ResourceKey(resource) == resource.type \o ":" \o resource.name

ResourceKeys(program) ==
    { ResourceKey(program.resources[i]) : i \in DOMAIN program.resources }

----------------------------------------------------------------------------
(* CobolAnalyzer.analyze_program *)

\* mutant of AddCalls: no node is created for a target that is no key yet
RECURSIVE AddCallsNoForwardNode(_, _, _)
AddCallsNoForwardNode(graph, name, calls) ==
    IF calls = <<>> THEN graph
    ELSE AddCallsNoForwardNode([ graph EXCEPT ![name] = @ \cup {Head(calls).target} ],
                               name, Tail(calls))

\* mutant of AddCalls: the node of a target is reset also when it is a key
RECURSIVE AddCallsResetsTarget(_, _, _)
AddCallsResetsTarget(graph, name, calls) ==
    IF calls = <<>> THEN graph
    ELSE LET target == Head(calls).target
             g1 == [ graph EXCEPT ![name] = @ \cup {target} ]
         IN  AddCallsResetsTarget(Put(g1, target, {}), name, Tail(calls))

\* the loop over program.calls: add the target to the caller's set and
\* create an empty node for a target that is no key yet
RECURSIVE AddCalls(_, _, _)
AddCalls(graph, name, calls) ==
    IF calls = <<>> THEN graph
    ELSE LET target == Head(calls).target
             g1 == [ graph EXCEPT ![name] = @ \cup {target} ]
             g2 == IF target \in DOMAIN g1 THEN g1 ELSE Put(g1, target, {})
         IN  AddCalls(g2, name, Tail(calls))

\* mutant of UpdateCallGraph: the callee set of a known program is kept
UpdateCallGraphKeepsEdges(graph, program) ==
    AddCalls(IF program.name \in DOMAIN graph THEN graph
             ELSE Put(graph, program.name, {}),
             program.name, program.calls)

\* call_graph[program.name] = set(), then the loop over the calls
UpdateCallGraph(graph, program) ==
    AddCalls(Put(graph, program.name, {}), program.name, program.calls)

\* mutant of UpdateResourceUsage: the set of a key is assigned, not added to
RECURSIVE UpdateResourceUsageAssigns(_, _, _)
UpdateResourceUsageAssigns(usage, name, resources) ==
    IF resources = <<>> THEN usage
    ELSE UpdateResourceUsageAssigns(Put(usage, ResourceKey(Head(resources)), {name}),
                                    name, Tail(resources))

\* the loop over program.resources
RECURSIVE UpdateResourceUsage(_, _, _)
UpdateResourceUsage(usage, name, resources) ==
    IF resources = <<>> THEN usage
    ELSE LET key == ResourceKey(Head(resources))
             u1 == IF key \in DOMAIN usage THEN usage ELSE Put(usage, key, {})
             u2 == [ u1 EXCEPT ![key] = @ \cup {name} ]
         IN  UpdateResourceUsage(u2, name, Tail(resources))

\* analyzed_programs[program.name] = program
UpdateRegistry(registry, program) == Put(registry, program.name, program)

\* the analyzer fields after analyze_program(path) ended with outcome r
Registered(fields, r) ==
    IF r.status = "error"
    THEN fields
    ELSE [ analyzed_programs |-> UpdateRegistry(fields.analyzed_programs, r.program),
           call_graph |-> UpdateCallGraph(fields.call_graph, r.program),
           resource_usage |->
               UpdateResourceUsage(fields.resource_usage, r.program.name,
                                   r.program.resources) ]

Fields == [ analyzed_programs |-> analyzed_programs,
            call_graph |-> call_graph,
            resource_usage |-> resource_usage ]

SetFields(f) ==
    /\ analyzed_programs' = f.analyzed_programs
    /\ call_graph' = f.call_graph
    /\ resource_usage' = f.resource_usage

\* history: the calls seen and the order of first registration
Remember(r) ==
    IF r.status = "error"
    THEN UNCHANGED historyVars
    ELSE /\ observed_calls' =
                observed_calls \cup
                    { <<r.program.name, t>> : t \in CallTargets(r.program) }
         /\ program_order' =
                IF r.program.name \in Range(program_order) THEN program_order
                ELSE Append(program_order, r.program.name)

\* analyze_program(program_path), the file at that path holding `file`
AnalyzeProgramBody(path, file) ==
    LET r == Parse(path, file)
    IN  /\ SetFields(Registered(Fields, r))
        /\ result' = r
        /\ Remember(r)

AnalyzeProgram(path, file) ==
    /\ dir_pc = "idle"
    /\ call' = [ op |-> "analyze_program", path |-> path, file |-> file ]
    /\ AnalyzeProgramBody(path, file)
    /\ UNCHANGED <<dirVars, parseVars>>

----------------------------------------------------------------------------
(* The queries *)

\* mutant of FindCallerPrograms: a program is not counted as its own caller
FindCallerProgramsButSelf(program_name) ==
    { caller \in DOMAIN call_graph :
        caller # program_name /\ program_name \in call_graph[caller] }

\* find_caller_programs(program_name)
FindCallerPrograms(program_name) ==
    { caller \in DOMAIN call_graph : program_name \in call_graph[caller] }

\* find_called_programs(program_name)
FindCalledPrograms(program_name) ==
    IF program_name \in DOMAIN call_graph THEN call_graph[program_name] ELSE {}

----------------------------------------------------------------------------
(* The records of the scope tree and of the data item table (src/main.py)  *)

\* None (and the empty string, which the code's truth tests treat alike)
None == ""

\* Optional[...] fields: Unset for None, Set(v) for a value
Unset == << >>
Set(v) == << v >>

Paragraph(name, start_line, end_line) ==
    [ name |-> name, start_line |-> start_line, end_line |-> end_line ]

Section(name, start_line, end_line) ==
    [ name |-> name, start_line |-> start_line, end_line |-> end_line,
      paragraphs |-> EmptyDict ]

Division(name, start_line, end_line) ==
    [ name |-> name, start_line |-> start_line, end_line |-> end_line,
      sections |-> EmptyDict ]

DataItem(name, level, location) ==
    [ name |-> name, level |-> level, picture |-> Unset, usage |-> Unset,
      value |-> Unset, redefines |-> Unset, occurs |-> Unset,
      location |-> location ]

\* `current_division = None` and so on: no scope of that kind is open.  An
\* open scope has a name of at least one character (the identifier pattern
\* matches no empty text), so the name tells the two apart.
NoParagraph == Paragraph(None, 0, 0)
NoSection == Section(None, 0, 0)
NoDivision == Division(None, 0, 0)

\* `if current_division:` and so on
IsOpen(scope) == scope.name # None

----------------------------------------------------------------------------
(* Spec: a CobolAnalyzer after construction, receiving analyze_program     *)
(* calls for any of the paths, the file holding any of the contents or     *)
(* being unreadable at the time of the call.                               *)

NoCall == [ op |-> "none", path |-> <<>>, file |-> Unreadable ]
NoResult == [ status |-> "none", program |-> NoProgram ]

InitAnalyzer ==
    /\ analyzed_programs = EmptyDict
    /\ call_graph = EmptyDict
    /\ resource_usage = EmptyDict
    /\ call = NoCall
    /\ result = NoResult
    /\ observed_calls = {}
    /\ program_order = <<>>

InitDir ==
    /\ dir_pc = "idle"
    /\ dir_tree = <<>>
    /\ cobol_files = <<>>
    /\ dir_done = <<>>
    /\ dir_start = [ analyzed_programs |-> EmptyDict, call_graph |-> EmptyDict,
                     resource_usage |-> EmptyDict ]

\* no source text is being parsed
InitParseIdle ==
    /\ source = <<>>
    /\ parse_pc = "idle"
    /\ current_line = 0
    /\ current_column = 0
    /\ line_content = <<>>
    /\ position = 0
    /\ tokens = <<>>
    /\ token_index = 0
    /\ current_division = NoDivision
    /\ current_section = NoSection
    /\ current_paragraph = NoParagraph
    /\ divisions = EmptyDict
    /\ data_items = EmptyDict
    /\ program_files = <<>>
    /\ program_calls = <<>>
    /\ program_resources = <<>>
    /\ maps_used = {}
    /\ data_structures = {}

Init == InitAnalyzer /\ InitDir /\ InitParseIdle

Next ==
    \E path \in ProgramPaths, file \in FileContents \cup {Unreadable} :
        AnalyzeProgram(path, file)

Spec == Init /\ [][Next]_vars

----------------------------------------------------------------------------
(* SpecQuery: a CobolAnalyzer receiving analyze_program calls and queries  *)

\* the names asked for: the programs, a target that is never analyzed, and a
\* name the analyzer never sees
QueryNames == { "A", "B", "SUBPROG", "Z" }

\* a call of find_caller_programs(program_name)
FindCallerProgramsCall(program_name) ==
    /\ dir_pc = "idle"
    /\ call' = [ op |-> "find_caller_programs", program_name |-> program_name ]
    /\ result' = [ status |-> "ok", names |-> FindCallerPrograms(program_name) ]
    /\ UNCHANGED <<analyzerVars, historyVars, dirVars, parseVars>>

\* a call of find_called_programs(program_name)
FindCalledProgramsCall(program_name) ==
    /\ dir_pc = "idle"
    /\ call' = [ op |-> "find_called_programs", program_name |-> program_name ]
    /\ result' = [ status |-> "ok", names |-> FindCalledPrograms(program_name) ]
    /\ UNCHANGED <<analyzerVars, historyVars, dirVars, parseVars>>

NextQuery ==
    \/ \E path \in ProgramPaths, file \in FileContents \cup {Unreadable} :
           AnalyzeProgram(path, file)
    \/ \E program_name \in QueryNames : FindCallerProgramsCall(program_name)
    \/ \E program_name \in QueryNames : FindCalledProgramsCall(program_name)

SpecQuery == Init /\ [][NextQuery]_vars

----------------------------------------------------------------------------
(* CobolAnalyzer.analyze_directory *)

\* mutant of IsCobolFile: the file name is compared as it is written
IsCobolFileCaseSensitive(file) ==
    \/ EndsWith(file, <<".", "c", "b", "l">>)
    \/ EndsWith(file, <<".", "c", "o", "b">>)
    \/ EndsWith(file, <<".", "c", "o", "b", "o", "l">>)

\* file.lower().endswith(('.cbl', '.cob', '.cobol'))
IsCobolFile(file) ==
    \/ EndsWith(Lower(file), <<".", "c", "b", "l">>)
    \/ EndsWith(Lower(file), <<".", "c", "o", "b">>)
    \/ EndsWith(Lower(file), <<".", "c", "o", "b", "o", "l">>)

DirEntry(root, file, content) == [ root |-> root, file |-> file, content |-> content ]

RootD == <<"d">>
RootDS == <<"d", "/", "s">>

\* the files a walked tree is made of: directory, file name, content
DirEntries ==
    { DirEntry(RootD, <<"A", ".", "C", "B", "L">>,
               SourceFile(<<StaticCall("B")>>, <<SqlCustomer>>)),
      DirEntry(RootD, <<"A", ".", "c", "o", "b", "o", "l">>,
               SourceFile(<<StaticCall("SUBPROG")>>, <<CicsUnknown>>)),
      DirEntry(RootDS, <<"B", ".", "c", "o", "b">>,
               SourceFile(<<StaticCall("A")>>, <<>>)),
      DirEntry(RootD, <<"C", ".", "t", "x", "t">>,
               SourceFile(<<StaticCall("SUBPROG")>>, <<SqlCustomer>>)),
      DirEntry(RootDS, <<"D", ".", "C", "o", "b">>, Unreadable),
      DirEntry(RootD, <<"E", ".", "c", "b", "l", ".", "b", "a", "k">>,
               SourceFile(<<>>, <<>>)) }

\* the number of files of a walked tree
MaxFiles == 3

IsPrefix(s, t) == Len(s) <= Len(t) /\ SubSeq(t, 1, Len(s)) = s

\* os.walk is top-down: a directory's files come before those of the
\* directories below it; the order inside one directory is arbitrary
WalkOrdered(tree) ==
    \A i, j \in DOMAIN tree :
        i < j => ~(tree[j].root # tree[i].root /\ IsPrefix(tree[j].root, tree[i].root))

Trees ==
    { tree \in UNION { [1..n -> DirEntries] : n \in 0..MaxFiles } :
        /\ \A i, j \in DOMAIN tree : i # j => tree[i] # tree[j]
        /\ WalkOrdered(tree) }

\* the loop over os.walk: the matching files, as paths, in walk order
RECURSIVE CollectCobolFiles(_)
CollectCobolFiles(tree) ==
    IF tree = <<>> THEN <<>>
    ELSE LET e == Head(tree)
             rest == CollectCobolFiles(Tail(tree))
         IN  IF IsCobolFile(e.file)
             THEN <<[ path |-> PathJoin(e.root, e.file), file |-> e.content ]>> \o rest
             ELSE rest

\* analyze_directory(directory_path) up to the end of the walk
AnalyzeDirectoryCollect(tree) ==
    /\ dir_pc = "idle"
    /\ dir_tree' = tree
    /\ cobol_files' = CollectCobolFiles(tree)
    /\ dir_done' = <<>>
    /\ dir_start' = Fields
    /\ dir_pc' = "analyzing"
    /\ call' = [ op |-> "analyze_directory", path |-> RootD, file |-> Unreadable ]
    /\ result' = NoResult
    /\ UNCHANGED <<analyzerVars, historyVars, parseVars>>

\* one iteration of `for file_path in cobol_files: self.analyze_program(file_path)`;
\* an error raised by analyze_program leaves the loop and analyze_directory
AnalyzeDirectoryNext ==
    /\ dir_pc = "analyzing"
    /\ cobol_files # <<>>
    /\ LET f == Head(cobol_files)
       IN  /\ call' = [ op |-> "analyze_program", path |-> f.path, file |-> f.file ]
           /\ AnalyzeProgramBody(f.path, f.file)
           /\ IF Parse(f.path, f.file).status = "error"
              THEN /\ dir_pc' = "raised"
                   /\ UNCHANGED <<cobol_files, dir_done>>
              ELSE /\ dir_pc' = "analyzing"
                   /\ cobol_files' = Tail(cobol_files)
                   /\ dir_done' = Append(dir_done, f)
    /\ UNCHANGED <<dir_tree, dir_start, parseVars>>

\* return self.analyzed_programs
AnalyzeDirectoryReturn ==
    /\ dir_pc = "analyzing"
    /\ cobol_files = <<>>
    /\ dir_pc' = "returned"
    /\ call' = [ op |-> "analyze_directory", path |-> RootD, file |-> Unreadable ]
    /\ result' = [ status |-> "ok", program |-> NoProgram ]
    /\ UNCHANGED <<analyzerVars, historyVars, dir_tree, cobol_files, dir_done, dir_start,
                   parseVars>>

(* SpecDir: a CobolAnalyzer after construction on which analyze_directory  *)
(* is called once (as the command line does), over any tree of at most     *)
(* MaxFiles files.                                                         *)

NextDir ==
    \/ \E tree \in Trees : AnalyzeDirectoryCollect(tree)
    \/ AnalyzeDirectoryNext
    \/ AnalyzeDirectoryReturn

SpecDir == Init /\ [][NextDir]_vars

----------------------------------------------------------------------------
(* CobolTokenizer: the token patterns *)

\* KEYWORDS
KEYWORDS == {
    "ACCEPT", "ACCESS", "ADD", "ADDRESS", "ADVANCING", "AFTER", "ALL", "ALPHABET",
    "ALPHABETIC", "ALPHABETIC-LOWER", "ALPHABETIC-UPPER", "ALPHANUMERIC",
    "ALPHANUMERIC-EDITED", "ALSO", "ALTER", "ALTERNATE", "AND", "ANY", "APPLY", "ARE",
    "AREA", "AREAS", "ASCENDING", "ASSIGN", "AT", "AUTHOR", "BASIS", "BEFORE", "BEGINNING",
    "BINARY", "BLANK", "BLOCK", "BOTTOM", "BY", "CALL", "CANCEL", "CBL", "CD", "CF", "CH",
    "CHARACTER", "CHARACTERS", "CLASS", "CLOCK-UNITS", "CLOSE", "COBOL", "CODE",
    "CODE-SET", "COLLATING", "COLUMN", "COMMA", "COMMON", "COMMUNICATION", "COMP",
    "COMP-1", "COMP-2", "COMP-3", "COMP-4", "COMPUTATIONAL", "COMPUTATIONAL-1",
    "COMPUTATIONAL-2", "COMPUTATIONAL-3", "COMPUTATIONAL-4", "COMPUTE", "CONFIGURATION",
    "CONTAINS", "CONTENT", "CONTINUE", "CONTROL", "CONTROLS", "CONVERTING", "COPY", "CORR",
    "CORRESPONDING", "COUNT", "CURRENCY", "DATA", "DATE", "DATE-COMPILED", "DATE-WRITTEN",
    "DAY", "DAY-OF-WEEK", "DB", "DB-ACCESS-CONTROL-KEY", "DB-DATA-NAME", "DB-EXCEPTION",
    "DB-RECORD-NAME", "DB-SET-NAME", "DB-STATUS", "DBCS", "DE", "DEBUG-CONTENTS",
    "DEBUG-ITEM", "DEBUG-LINE", "DEBUG-NAME", "DEBUG-SUB-1", "DEBUG-SUB-2", "DEBUG-SUB-3",
    "DEBUGGING", "DECIMAL-POINT", "DECLARATIVES", "DELETE", "DELIMITED", "DELIMITER",
    "DEPENDING", "DESCENDING", "DESTINATION", "DETAIL", "DISABLE", "DISPLAY", "DIVIDE",
    "DIVISION", "DOWN", "DUPLICATES", "DYNAMIC", "EGI", "ELSE", "EMI", "ENABLE",
    "ENCRYPTION", "END", "END-ADD", "END-CALL", "END-COMPUTE", "END-DELETE", "END-DIVIDE",
    "END-EVALUATE", "END-EXEC", "END-IF", "END-MULTIPLY", "END-OF-PAGE", "END-PERFORM",
    "END-READ", "END-RECEIVE", "END-RETURN", "END-REWRITE", "END-SEARCH", "END-START",
    "END-STRING", "END-SUBTRACT", "END-UNSTRING", "END-WRITE", "ENDING", "ENTER", "ENTRY",
    "ENVIRONMENT", "EOP", "EQUAL", "ERROR", "ESI", "EVALUATE", "EVERY", "EXCEPTION",
    "EXEC", "EXECUTE", "EXIT", "EXTEND", "EXTERNAL", "FALSE", "FD", "FILE", "FILE-CONTROL",
    "FILLER", "FINAL", "FIRST", "FOOTING", "FOR", "FROM", "FUNCTION", "GENERATE", "GIVING",
    "GLOBAL", "GO", "GOBACK", "GREATER", "GROUP", "HEADING", "HIGH-VALUE", "HIGH-VALUES",
    "I-O", "I-O-CONTROL", "ID", "IDENTIFICATION", "IF", "IN", "INDEX", "INDEXED",
    "INDICATE", "INITIAL", "INITIALIZE", "INITIATE", "INPUT", "INPUT-OUTPUT", "INSPECT",
    "INSTALLATION", "INTO", "INVALID", "INVOKE", "IS", "JUST", "JUSTIFIED", "KEY", "LABEL",
    "LAST", "LEADING", "LEFT", "LENGTH", "LESS", "LIMIT", "LIMITS", "LINAGE",
    "LINAGE-COUNTER", "LINE", "LINE-COUNTER", "LINES", "LINKAGE", "LOCAL-STORAGE", "LOCK",
    "LOW-VALUE", "LOW-VALUES", "MEMORY", "MERGE", "MESSAGE", "METACLASS", "METHOD",
    "METHOD-ID", "MODE", "MODULES", "MORE-LABELS", "MOVE", "MULTIPLE", "MULTIPLY",
    "NATIVE", "NEGATIVE", "NEXT", "NO", "NOT", "NULL", "NULLS", "NUMBER", "NUMERIC",
    "NUMERIC-EDITED", "OBJECT", "OBJECT-COMPUTER", "OCCURS", "OF", "OFF", "OMITTED", "ON",
    "OPEN", "OPTIONAL", "OR", "ORDER", "ORGANIZATION", "OTHER", "OUTPUT", "OVERFLOW",
    "OVERRIDE", "PACKED-DECIMAL", "PADDING", "PAGE", "PAGE-COUNTER", "PASSWORD", "PERFORM",
    "PF", "PH", "PIC", "PICTURE", "PLUS", "POINTER", "POSITION", "POSITIVE", "PRINTING",
    "PROCEDURE", "PROCEDURES", "PROCEED", "PROGRAM", "PROGRAM-ID", "PROPERTY", "PROTOTYPE",
    "PURGE", "QUEUE", "QUOTE", "QUOTES", "RANDOM", "RD", "READ", "READY", "RECEIVE",
    "RECORD", "RECORDING", "RECORDS", "RECURSIVE", "REDEFINES", "REEL", "REFERENCE",
    "REFERENCES", "RELATIVE", "RELEASE", "RELOAD", "REMAINDER", "REMOVAL", "RENAMES",
    "REPLACE", "REPLACING", "REPORT", "REPORTING", "REPORTS", "REPOSITORY", "RERUN",
    "RESERVE", "RESET", "RETURN", "RETURNING", "REVERSED", "REWIND", "REWRITE", "RF", "RH",
    "RIGHT", "ROUNDED", "RUN", "SAME", "SD", "SEARCH", "SECTION", "SECURITY", "SEGMENT",
    "SEGMENT-LIMIT", "SELECT", "SELF", "SEND", "SENTENCE", "SEPARATE", "SEQUENCE",
    "SEQUENTIAL", "SERVICE", "SET", "SHIFT-IN", "SHIFT-OUT", "SIGN", "SIZE", "SKIP1",
    "SKIP2", "SKIP3", "SORT", "SORT-CONTROL", "SORT-CORE-SIZE", "SORT-FILE-SIZE",
    "SORT-MERGE", "SORT-MESSAGE", "SORT-MODE-SIZE", "SORT-RETURN", "SOURCE",
    "SOURCE-COMPUTER", "SPACE", "SPACES", "SPECIAL-NAMES", "STANDARD", "STANDARD-1",
    "STANDARD-2", "START", "STATUS", "STOP", "STRING", "SUB-QUEUE-1", "SUB-QUEUE-2",
    "SUB-QUEUE-3", "SUBTRACT", "SUM", "SUPER", "SUPPRESS", "SYMBOLIC", "SYNC",
    "SYNCHRONIZED", "TABLE", "TALLY", "TALLYING", "TAPE", "TERMINAL", "TERMINATE", "TEST",
    "TEXT", "THAN", "THEN", "THROUGH", "THRU", "TIME", "TIMES", "TITLE", "TO", "TOP",
    "TRACE", "TRAILING", "TRUE", "TYPE", "UNIT", "UNSTRING", "UNTIL", "UP", "UPON",
    "USAGE", "USE", "USING", "VALUE", "VALUES", "VARYING", "WHEN", "WITH", "WORDS",
    "WORKING-STORAGE", "WRITE", "ZERO", "ZEROES", "ZEROS" }

\* DIVISIONS
DIVISIONS == { "IDENTIFICATION", "ENVIRONMENT", "DATA", "PROCEDURE" }

DQ == "\""
Star == "*"

\* \s and str.strip: the whitespace a line can hold (splitlines removed the rest)
Whitespace == { " ", "\t" }
Digits == { "0", "1", "2", "3", "4", "5", "6", "7", "8", "9" }
Letters == Range(UpperChars) \cup Range(LowerChars)
OperatorChars == { "+", "-", "*", "/", "=", "<", ">" }
PunctuationChars == { ".", ",", ";", ":" }
SpecialChars == { "(", ")", "{", "}", "[", "]" }

\* the number of leading characters of s that are in class
LeadingCount(s, class) ==
    CHOOSE n \in 0..Len(s) :
        /\ \A i \in 1..n : s[i] \in class
        /\ n < Len(s) => s[n + 1] \notin class

\* str.rstrip() and str.strip()
RStrip(s) ==
    LET keep == { i \in DOMAIN s : s[i] \notin Whitespace }
    IN  IF keep = {} THEN <<>>
        ELSE SubSeq(s, 1, CHOOSE i \in keep : \A j \in keep : j <= i)
Strip(s) == LET r == RStrip(s) IN Drop(r, LeadingCount(r, Whitespace))

(* Each pattern is matched at the start of s, the rest of the line          *)
(* (PATTERNS[...].match(line[position:])); the value is the length of the  *)
(* match, 0 when there is none.                                            *)

\* 'whitespace': \s+
WhitespaceMatch(s) == LeadingCount(s, Whitespace)

\* mutant of CommentMatch: a text is required after the asterisk (^\*.+$)
CommentMatchNeedsText(s) ==
    IF s[1] = Star /\ Len(s) >= 2 THEN Len(s)
    ELSE IF s[1] = Slash /\ Len(s) >= 3 /\ s[Len(s)] = Slash THEN Len(s)
    ELSE 0

\* 'comment': ^\*.*$|^/.+/$   (^ is the start of the rest of the line)
CommentMatch(s) ==
    IF s[1] = Star THEN Len(s)
    ELSE IF s[1] = Slash /\ Len(s) >= 3 /\ s[Len(s)] = Slash THEN Len(s)
    ELSE 0

\* 'string_literal': "([^"]*)"
StringLiteralMatch(s) ==
    IF s[1] = DQ /\ \E k \in 2..Len(s) : s[k] = DQ
    THEN CHOOSE k \in 2..Len(s) : s[k] = DQ /\ \A j \in 2..(k - 1) : s[j] # DQ
    ELSE 0

\* 'number': \d+(\.\d+)?
NumberMatch(s) ==
    LET n == LeadingCount(s, Digits)
    IN  IF n = 0 THEN 0
        ELSE IF Len(s) >= n + 2 /\ s[n + 1] = Dot /\ s[n + 2] \in Digits
        THEN n + 1 + LeadingCount(Drop(s, n + 1), Digits)
        ELSE n

\* 'identifier': [A-Za-z0-9][-A-Za-z0-9]*
IdentifierMatch(s) ==
    IF s[1] \in Letters \cup Digits
    THEN 1 + LeadingCount(Tail(s), Letters \cup Digits \cup {"-"})
    ELSE 0

\* KEYWORD or IDENTIFIER, DIVISION for a division name
WordType(text) ==
    IF Str(Upper(text)) \in DIVISIONS THEN "DIVISION"
    ELSE IF Str(Upper(text)) \in KEYWORDS THEN "KEYWORD"
    ELSE "IDENTIFIER"

Token(type, value, line, column) ==
    [ type |-> type, value |-> value, line |-> line, column |-> column ]

\* token.value.upper()
UpperValue(token) == Str(Upper(token.value))

Lexeme(type, value, length) == [ type |-> type, value |-> value, length |-> length ]

\* mutant of ScanStep: a character that no pattern matches is skipped
\* without a token
ScanStepSkipsUnknown(s) ==
    IF WhitespaceMatch(s) > 0
    THEN Lexeme("WHITESPACE", <<>>, WhitespaceMatch(s))
    ELSE IF CommentMatch(s) > 0
    THEN Lexeme("COMMENT", SubSeq(s, 1, CommentMatch(s)), CommentMatch(s))
    ELSE IF StringLiteralMatch(s) > 0
    THEN Lexeme("LITERAL", SubSeq(s, 2, StringLiteralMatch(s) - 1), StringLiteralMatch(s))
    ELSE IF NumberMatch(s) > 0
    THEN Lexeme("NUMBER", SubSeq(s, 1, NumberMatch(s)), NumberMatch(s))
    ELSE IF IdentifierMatch(s) > 0
    THEN Lexeme(WordType(SubSeq(s, 1, IdentifierMatch(s))),
                SubSeq(s, 1, IdentifierMatch(s)), IdentifierMatch(s))
    ELSE IF s[1] \in OperatorChars THEN Lexeme("OPERATOR", <<s[1]>>, 1)
    ELSE IF s[1] \in PunctuationChars THEN Lexeme("PUNCTUATION", <<s[1]>>, 1)
    ELSE IF s[1] \in SpecialChars THEN Lexeme("SPECIAL", <<s[1]>>, 1)
    ELSE Lexeme("WHITESPACE", <<>>, 1)

\* one iteration of the loop of _tokenize_line on the non-empty rest s of the
\* line: the first pattern that matches, in the order of the code
ScanStep(s) ==
    IF WhitespaceMatch(s) > 0
    THEN Lexeme("WHITESPACE", <<>>, WhitespaceMatch(s))
    ELSE IF CommentMatch(s) > 0
    THEN Lexeme("COMMENT", SubSeq(s, 1, CommentMatch(s)), CommentMatch(s))
    ELSE IF StringLiteralMatch(s) > 0
    THEN Lexeme("LITERAL", SubSeq(s, 2, StringLiteralMatch(s) - 1), StringLiteralMatch(s))
    ELSE IF NumberMatch(s) > 0
    THEN Lexeme("NUMBER", SubSeq(s, 1, NumberMatch(s)), NumberMatch(s))
    ELSE IF IdentifierMatch(s) > 0
    THEN Lexeme(WordType(SubSeq(s, 1, IdentifierMatch(s))),
                SubSeq(s, 1, IdentifierMatch(s)), IdentifierMatch(s))
    ELSE IF s[1] \in OperatorChars THEN Lexeme("OPERATOR", <<s[1]>>, 1)
    ELSE IF s[1] \in PunctuationChars THEN Lexeme("PUNCTUATION", <<s[1]>>, 1)
    ELSE IF s[1] \in SpecialChars THEN Lexeme("SPECIAL", <<s[1]>>, 1)
    ELSE Lexeme("UNKNOWN", <<s[1]>>, 1)

\* mutant of LineContent: the scan starts one column early
LineContentFromColumn6(line) == RStrip(Drop(line, 5))

\* line[6:].rstrip(): what _tokenize_line scans
LineContent(line) == RStrip(Drop(line, 6))

\* len(line) > 7 and line[6] == '*'
IsCommentLine(line) == Len(line) > 7 /\ line[7] = Star

----------------------------------------------------------------------------
(* CobolTokenizer.tokenize, one action per loop iteration *)

\* `for line_num, line in enumerate(lines, 1)`: the next line is taken when
\* the scan of the previous one has reached its end
TokenizeNextLine ==
    /\ parse_pc = "tokenize"
    /\ position >= Len(line_content)
    /\ current_line < Len(source)
    /\ LET line_num == current_line + 1
           line == source[line_num]
       IN  /\ current_line' = line_num
           /\ IF Len(line) > 6
              THEN IF IsCommentLine(line)
                   THEN /\ tokens' = Append(tokens,
                               Token("COMMENT", Strip(Drop(line, 7)), line_num, 7))
                        /\ current_column' = 1
                        /\ line_content' = <<>>
                   ELSE /\ current_column' = 7
                        /\ line_content' = LineContent(line)
                        /\ tokens' = tokens
              ELSE /\ current_column' = 1
                   /\ line_content' = <<>>
                   /\ tokens' = tokens
           /\ position' = 0
    /\ UNCHANGED <<source, parse_pc, programVars>>
    /\ UNCHANGED <<analyzerVars, callVars, historyVars, dirVars>>

\* one iteration of `while position < line_length`
TokenizeScan ==
    /\ parse_pc = "tokenize"
    /\ position < Len(line_content)
    /\ LET lexeme == ScanStep(Drop(line_content, position))
       IN  /\ tokens' =
                  IF lexeme.type = "WHITESPACE" THEN tokens
                  ELSE Append(tokens, Token(lexeme.type, lexeme.value,
                                            current_line, current_column))
           /\ current_column' = current_column + lexeme.length
           /\ position' = position + lexeme.length
    /\ UNCHANGED <<source, parse_pc, current_line, line_content, programVars>>
    /\ UNCHANGED <<analyzerVars, callVars, historyVars, dirVars>>

\* `return tokens` after the last line
TokenizeReturn ==
    /\ parse_pc = "tokenize"
    /\ position >= Len(line_content)
    /\ current_line = Len(source)
    /\ parse_pc' = "divisions"
    /\ UNCHANGED <<source, tokenizerVars, programVars>>
    /\ UNCHANGED <<analyzerVars, callVars, historyVars, dirVars>>

----------------------------------------------------------------------------
(* CobolParser._parse_divisions: the scope tree and the data item table    *)

\* the loop's variables and the program fields it fills
ScopeState ==
    [ current_division |-> current_division,
      current_section |-> current_section,
      current_paragraph |-> current_paragraph,
      divisions |-> divisions,
      data_items |-> data_items ]

\* "End the current paragraph": end_line is set and the paragraph is stored
\* in the open section
EndParagraph(section, paragraph, end_line) ==
    [ section EXCEPT
        !.paragraphs = Put(@, paragraph.name, [ paragraph EXCEPT !.end_line = end_line ]) ]

\* "End the current section": end_line is set and the section is stored in
\* the open division
EndSection(division, section, end_line) ==
    [ division EXCEPT
        !.sections = Put(@, section.name, [ section EXCEPT !.end_line = end_line ]) ]

\* "End the division": end_line is set and the division is stored in
\* program.divisions
EndDivision(program_divisions, division, end_line) ==
    Put(program_divisions, division.name, [ division EXCEPT !.end_line = end_line ])

\* the open section after `if current_paragraph: ...`
SectionAfterParagraphEnd(s, end_line) ==
    IF IsOpen(s.current_paragraph)
    THEN EndParagraph(s.current_section, s.current_paragraph, end_line)
    ELSE s.current_section

\* the open division after `if current_section: ...`
DivisionAfterSectionEnd(s, end_line) ==
    IF IsOpen(s.current_section)
    THEN EndSection(s.current_division, SectionAfterParagraphEnd(s, end_line), end_line)
    ELSE s.current_division

\* program.divisions after `if current_division: ...`
DivisionsAfterDivisionEnd(s, end_line) ==
    IF IsOpen(s.current_division)
    THEN EndDivision(s.divisions, DivisionAfterSectionEnd(s, end_line), end_line)
    ELSE s.divisions

\* mutant of OnDivisionToken: the open scopes are ended at the line of the
\* Division token, not at the line before it
OnDivisionTokenEndsAtToken(s, token) ==
    [ s EXCEPT
        !.divisions = DivisionsAfterDivisionEnd(s, token.line),
        !.current_division = Division(UpperValue(token), token.line, 0),
        !.current_section = NoSection,
        !.current_paragraph = NoParagraph ]

\* `if token.type == TokenType.DIVISION:`
OnDivisionToken(s, token) ==
    [ s EXCEPT
        !.divisions = DivisionsAfterDivisionEnd(s, token.line - 1),
        !.current_division = Division(UpperValue(token), token.line, 0),
        !.current_section = NoSection,
        !.current_paragraph = NoParagraph ]

\* mutant of OnSectionToken: the open section is ended at the line of the
\* SECTION token, not at the line before it
OnSectionTokenEndsAtToken(s, toks, i) ==
    IF i > 1 /\ toks[i - 1].type = "IDENTIFIER" /\ IsOpen(s.current_division)
    THEN [ s EXCEPT
             !.current_division = DivisionAfterSectionEnd(s, toks[i].line),
             !.current_section = Section(UpperValue(toks[i - 1]), toks[i].line, 0),
             !.current_paragraph = NoParagraph ]
    ELSE s

\* `elif token.type == TokenType.SECTION:`
OnSectionToken(s, toks, i) ==
    IF i > 1 /\ toks[i - 1].type = "IDENTIFIER" /\ IsOpen(s.current_division)
    THEN [ s EXCEPT
             !.current_division = DivisionAfterSectionEnd(s, toks[i].line - 1),
             !.current_section = Section(UpperValue(toks[i - 1]), toks[i].line, 0),
             !.current_paragraph = NoParagraph ]
    ELSE s

\* the condition of the paragraph branch
IsParagraphStart(s, toks, i) ==
    /\ toks[i].type = "IDENTIFIER"
    /\ IsOpen(s.current_division)
    /\ s.current_division.name = "PROCEDURE"
    /\ (i = 1 \/ toks[i - 1].line # toks[i].line)
    /\ i + 1 <= Len(toks)
    /\ Str(toks[i + 1].value) # "SECTION"

\* the body of the paragraph branch
OnParagraphToken(s, token) ==
    IF IsOpen(s.current_section)
    THEN [ s EXCEPT
             !.current_section = SectionAfterParagraphEnd(s, token.line - 1),
             !.current_paragraph = Paragraph(UpperValue(token), token.line, 0) ]
    ELSE s

DigitChars == <<"0", "1", "2", "3", "4", "5", "6", "7", "8", "9">>

DigitValue(c) == (CHOOSE k \in DOMAIN DigitChars : DigitChars[k] = c) - 1

\* the value of a sequence of digits and underscores
RECURSIVE Decimal(_)
Decimal(s) ==
    IF s = <<>> THEN 0
    ELSE IF s[Len(s)] = "_" THEN Decimal(SubSeq(s, 1, Len(s) - 1))
    ELSE 10 * Decimal(SubSeq(s, 1, Len(s) - 1)) + DigitValue(s[Len(s)])

\* int(text): blanks around the number, a sign and single underscores
\* between digits are accepted; anything else raises ValueError
ParseInt(text) ==
    LET stripped == Strip(text)
        signed == stripped # <<>> /\ stripped[1] \in { "+", "-" }
        body == IF signed THEN Tail(stripped) ELSE stripped
        valid ==
            /\ body # <<>>
            /\ \A k \in DOMAIN body : body[k] \in Digits \cup { "_" }
            /\ body[1] \in Digits
            /\ body[Len(body)] \in Digits
            /\ \A k \in 1..(Len(body) - 1) : ~(body[k] = "_" /\ body[k + 1] = "_")
    IN  IF ~valid THEN [ ok |-> FALSE, value |-> 0 ]
        ELSE [ ok |-> TRUE,
               value |-> IF signed /\ stripped[1] = "-" THEN 0 - Decimal(body)
                         ELSE Decimal(body) ]

\* `data_item.picture = self.tokens[j + 1].value` and the like
ClauseValue(toks, j) == Set(Str(toks[j + 1].value))

\* the OCCURS clause if a value that int() rejects left the field unset
OccursValueUnset(toks, j) ==
    LET parsed == ParseInt(toks[j + 1].value)
    IN  IF parsed.ok THEN Set(parsed.value) ELSE Unset

\* `try: data_item.occurs = int(...) except ValueError: data_item.occurs = 0`
OccursValue(toks, j) ==
    LET parsed == ParseInt(toks[j + 1].value)
    IN  Set(IF parsed.ok THEN parsed.value ELSE 0)

\* "Look ahead for PICTURE/PIC clause": the loop
\* `while j < len(self.tokens) and self.tokens[j].line == token.line`
RECURSIVE ClauseScan(_, _, _, _)
ClauseScan(toks, j, line, item) ==
    IF j > Len(toks) \/ toks[j].line # line THEN item
    ELSE IF UpperValue(toks[j]) \in { "PIC", "PICTURE" } /\ j + 1 <= Len(toks)
    THEN ClauseScan(toks, j + 2, line, [ item EXCEPT !.picture = ClauseValue(toks, j) ])
    ELSE IF UpperValue(toks[j]) = "USAGE" /\ j + 1 <= Len(toks)
    THEN ClauseScan(toks, j + 2, line, [ item EXCEPT !.usage = ClauseValue(toks, j) ])
    ELSE IF UpperValue(toks[j]) = "VALUE" /\ j + 1 <= Len(toks)
    THEN ClauseScan(toks, j + 2, line, [ item EXCEPT !.value = ClauseValue(toks, j) ])
    ELSE IF UpperValue(toks[j]) = "REDEFINES" /\ j + 1 <= Len(toks)
    THEN ClauseScan(toks, j + 2, line, [ item EXCEPT !.redefines = ClauseValue(toks, j) ])
    ELSE IF UpperValue(toks[j]) = "OCCURS" /\ j + 1 <= Len(toks)
    THEN ClauseScan(toks, j + 2, line, [ item EXCEPT !.occurs = OccursValue(toks, j) ])
    ELSE ClauseScan(toks, j + 1, line, item)

\* the condition of the data item branch
IsDataItemStart(s, toks, i) ==
    /\ IsOpen(s.current_division)
    /\ s.current_division.name = "DATA"
    /\ toks[i].type = "NUMBER"
    /\ i + 1 <= Len(toks)
    /\ toks[i + 1].type = "IDENTIFIER"

\* the body of the data item branch; a level that int() rejects (a number
\* with a decimal point) leaves the table as it is
OnDataItemToken(s, toks, i) ==
    LET level == ParseInt(toks[i].value)
        name == Upper(toks[i + 1].value)
        item == ClauseScan(toks, i + 2, toks[i].line,
                           DataItem(name, level.value, <<toks[i].line, toks[i].column>>))
    IN  IF level.ok THEN [ s EXCEPT !.data_items = Put(@, name, item) ] ELSE s

\* one iteration of `while i < len(self.tokens)` on the token at index i
\* (counted from 1)
ScopeStep(s, toks, i) ==
    IF toks[i].type = "DIVISION" THEN OnDivisionToken(s, toks[i])
    ELSE IF toks[i].type = "SECTION" THEN OnSectionToken(s, toks, i)
    ELSE IF IsParagraphStart(s, toks, i) THEN OnParagraphToken(s, toks[i])
    ELSE IF IsDataItemStart(s, toks, i) THEN OnDataItemToken(s, toks, i)
    ELSE s

\* `self.tokens[-1].line if self.tokens else 0`
LastLine(toks) == IF toks = <<>> THEN 0 ELSE toks[Len(toks)].line

\* "Close any open structures"
ScopeClose(s, toks) ==
    [ s EXCEPT !.divisions = DivisionsAfterDivisionEnd(s, LastLine(toks)) ]

SetScopeState(s) ==
    /\ current_division' = s.current_division
    /\ current_section' = s.current_section
    /\ current_paragraph' = s.current_paragraph
    /\ divisions' = s.divisions
    /\ data_items' = s.data_items

\* one iteration of the loop of _parse_divisions
ParseDivisionsStep ==
    /\ parse_pc = "divisions"
    /\ token_index < Len(tokens)
    /\ SetScopeState(ScopeStep(ScopeState, tokens, token_index + 1))
    /\ token_index' = token_index + 1
    /\ UNCHANGED <<source, parse_pc, tokenizerVars, program_files, program_calls,
                   program_resources, maps_used, data_structures>>
    /\ UNCHANGED <<analyzerVars, callVars, historyVars, dirVars>>

\* the end of the loop and "Close any open structures".  The local variables
\* go out of scope; the model keeps their last values.
ParseDivisionsClose ==
    /\ parse_pc = "divisions"
    /\ token_index = Len(tokens)
    /\ divisions' = ScopeClose(ScopeState, tokens).divisions
    /\ parse_pc' = "files"
    /\ UNCHANGED <<source, tokenizerVars, token_index, current_division, current_section,
                   current_paragraph, data_items, program_files, program_calls,
                   program_resources, maps_used, data_structures>>
    /\ UNCHANGED <<analyzerVars, callVars, historyVars, dirVars>>

----------------------------------------------------------------------------
(* CobolParser._extract_file_references *)

FileReference(name, access_mode, organization, record_key, location) ==
    [ name |-> name, access_mode |-> access_mode, organization |-> organization,
      record_key |-> record_key, location |-> location ]

\* the body of the loop "Look ahead for ORGANIZATION, ACCESS MODE, etc." on
\* the token at index j
SelectClause(toks, j, ref) ==
    IF UpperValue(toks[j]) = "ORGANIZATION" /\ j + 1 <= Len(toks)
    THEN [ ref EXCEPT !.organization = Set(UpperValue(toks[j + 1])) ]
    ELSE IF /\ UpperValue(toks[j]) = "ACCESS"
            /\ j + 1 <= Len(toks)
            /\ UpperValue(toks[j + 1]) = "MODE"
            /\ j + 2 <= Len(toks)
    THEN [ ref EXCEPT !.access_mode = UpperValue(toks[j + 2]) ]
    ELSE IF /\ UpperValue(toks[j]) = "RECORD"
            /\ j + 1 <= Len(toks)
            /\ UpperValue(toks[j + 1]) = "KEY"
            /\ j + 2 <= Len(toks)
    THEN [ ref EXCEPT !.record_key = Set(UpperValue(toks[j + 2])) ]
    ELSE ref

\* the loop `while j < len(self.tokens) and ... != 'SELECT'`, which is left
\* after `j += 1` when the token then at j is a dot
RECURSIVE SelectClauses(_, _, _)
SelectClauses(toks, j, ref) ==
    IF j > Len(toks) \/ UpperValue(toks[j]) = "SELECT" THEN ref
    ELSE IF j + 1 > Len(toks) \/ UpperValue(toks[j + 1]) = "."
    THEN SelectClause(toks, j, ref)
    ELSE SelectClauses(toks, j + 1, SelectClause(toks, j, ref))

\* the first loop, "Look for SELECT statements", from token i on, `found`
\* being program.files so far
RECURSIVE ExtractSelectsFrom(_, _, _)
ExtractSelectsFrom(toks, i, found) ==
    IF i > Len(toks) THEN found
    ELSE IF /\ toks[i].type = "KEYWORD"
            /\ UpperValue(toks[i]) = "SELECT"
            /\ i + 1 <= Len(toks)
            /\ toks[i + 1].type = "IDENTIFIER"
    THEN ExtractSelectsFrom(toks, i + 1,
             Append(found,
                 SelectClauses(toks, i + 2,
                     FileReference(UpperValue(toks[i + 1]), "SEQUENTIAL", Unset, Unset,
                                   <<toks[i].line, toks[i].column>>))))
    ELSE ExtractSelectsFrom(toks, i + 1, found)

\* "Look ahead for file names": the loop over the tokens j that follow token
\* i on its line
RECURSIVE LookAheadForFileNames(_, _, _, _)
LookAheadForFileNames(toks, i, j, found) ==
    IF j > Len(toks) \/ toks[j].line # toks[i].line THEN found
    ELSE IF /\ toks[j].type = "IDENTIFIER"
            /\ \A k \in DOMAIN found : found[k].name # UpperValue(toks[j])
    THEN LookAheadForFileNames(toks, i, j + 1,
             Append(found, FileReference(UpperValue(toks[j]), "UNKNOWN", Unset, Unset,
                                         <<toks[i].line, toks[i].column>>)))
    ELSE LookAheadForFileNames(toks, i, j + 1, found)

\* the second loop, "Also look for file operations", from token i on.  The
\* statement under `if ... in ['OPEN', 'CLOSE', ...]` is the assignment to
\* `operation`, which nothing reads; the look-ahead is at the level of the
\* `if` and runs for every token i.  (Len(found) >= 0 holds of every list;
\* reading the list at each iteration has it computed iteration by
\* iteration, as the code does.)
RECURSIVE ExtractFileOperationsFrom(_, _, _)
ExtractFileOperationsFrom(toks, i, found) ==
    IF i <= Len(toks) /\ Len(found) >= 0
    THEN ExtractFileOperationsFrom(toks, i + 1,
             LookAheadForFileNames(toks, i, i + 1, found))
    ELSE found

\* self._extract_file_references()
ExtractFileReferences ==
    /\ parse_pc = "files"
    /\ program_files' =
           ExtractFileOperationsFrom(tokens, 1,
               ExtractSelectsFrom(tokens, 1, program_files))
    /\ parse_pc' = "calls"
    /\ UNCHANGED <<source, tokenizerVars, scopeVars, program_calls, program_resources,
                   maps_used, data_structures>>
    /\ UNCHANGED <<analyzerVars, callVars, historyVars, dirVars>>

----------------------------------------------------------------------------
(* CobolParser._extract_program_calls *)

ProgramCall(target, is_dynamic, parameters, location) ==
    [ target |-> target, is_dynamic |-> is_dynamic, parameters |-> parameters,
      location |-> location ]

\* mutant of CallTarget: an identifier after CALL is taken as a static target
CallTargetAlwaysStatic(toks, i) ==
    IF i + 1 > Len(toks) THEN [ target |-> None, is_dynamic |-> FALSE ]
    ELSE IF toks[i + 1].type \in { "LITERAL", "IDENTIFIER" }
    THEN [ target |-> Str(toks[i + 1].value), is_dynamic |-> FALSE ]
    ELSE [ target |-> None, is_dynamic |-> FALSE ]

\* "Check if the next token is a literal (static call) or identifier
\* (potentially dynamic)"
CallTarget(toks, i) ==
    IF i + 1 > Len(toks) THEN [ target |-> None, is_dynamic |-> FALSE ]
    ELSE IF toks[i + 1].type = "LITERAL"
    THEN [ target |-> Str(toks[i + 1].value), is_dynamic |-> FALSE ]
    ELSE IF toks[i + 1].type = "IDENTIFIER"
    THEN [ target |-> UpperValue(toks[i + 1]), is_dynamic |-> TRUE ]
    ELSE [ target |-> None, is_dynamic |-> FALSE ]

\* "Look for USING clause to extract parameters": the loop over the tokens
\* of the line of the CALL from index j on
RECURSIVE CallParameters(_, _, _, _, _)
CallParameters(toks, j, line, using_found, parameters) ==
    IF j > Len(toks) \/ toks[j].line # line THEN parameters
    ELSE IF toks[j].type = "KEYWORD" /\ UpperValue(toks[j]) = "USING"
    THEN CallParameters(toks, j + 1, line, TRUE, parameters)
    ELSE IF using_found /\ toks[j].type = "IDENTIFIER"
    THEN CallParameters(toks, j + 1, line, using_found,
                        Append(parameters, UpperValue(toks[j])))
    ELSE CallParameters(toks, j + 1, line, using_found, parameters)

\* the loop of _extract_program_calls from token i on, `found` being
\* program.calls so far
RECURSIVE ExtractProgramCallsFrom(_, _, _)
ExtractProgramCallsFrom(toks, i, found) ==
    IF i > Len(toks) THEN found
    ELSE IF toks[i].type = "KEYWORD" /\ UpperValue(toks[i]) = "CALL"
    THEN LET t == CallTarget(toks, i)
             parameters == CallParameters(toks, i + 2, toks[i].line, FALSE, <<>>)
         IN  ExtractProgramCallsFrom(toks, i + 1,
                 IF t.target # None
                 THEN Append(found, ProgramCall(t.target, t.is_dynamic, parameters,
                                                <<toks[i].line, toks[i].column>>))
                 ELSE found)
    ELSE ExtractProgramCallsFrom(toks, i + 1, found)

\* self._extract_program_calls()
ExtractProgramCalls ==
    /\ parse_pc = "calls"
    /\ program_calls' = ExtractProgramCallsFrom(tokens, 1, program_calls)
    /\ parse_pc' = "resources"
    /\ UNCHANGED <<source, tokenizerVars, scopeVars, program_files, program_resources,
                   maps_used, data_structures>>
    /\ UNCHANGED <<analyzerVars, callVars, historyVars, dirVars>>

----------------------------------------------------------------------------
(* CobolParser._extract_resources *)

\* the words after which the resource name is looked for
NameKeywords(resource_type) ==
    IF resource_type = "SQL" THEN { "FROM", "INTO", "UPDATE", "TABLE" }
    ELSE IF resource_type = "CICS" THEN { "PROGRAM", "TRANSID", "QUEUE", "FILE" }
    ELSE IF resource_type = "MQ" THEN { "QNAME", "QUEUE" }
    ELSE {}

\* the inner loop `while j < len(self.tokens) and ... != 'END-EXEC'`
RECURSIVE ScanExecBlock(_, _, _, _, _)
ScanExecBlock(toks, j, name_keywords, operation, resource_name) ==
    IF j > Len(toks) \/ UpperValue(toks[j]) = "END-EXEC"
    THEN [ operation |-> operation, resource_name |-> resource_name ]
    ELSE IF toks[j].type = "KEYWORD"
    THEN ScanExecBlock(toks, j + 1, name_keywords,
             IF operation = None THEN UpperValue(toks[j]) ELSE operation,
             IF UpperValue(toks[j]) \in name_keywords /\ j + 1 <= Len(toks)
             THEN UpperValue(toks[j + 1])
             ELSE resource_name)
    ELSE ScanExecBlock(toks, j + 1, name_keywords, operation, resource_name)

\* `while i < len(self.tokens) and ... != 'END-EXEC': i += 1`
RECURSIVE SkipToEndExec(_, _)
SkipToEndExec(toks, i) ==
    IF i > Len(toks) \/ UpperValue(toks[i]) = "END-EXEC" THEN i
    ELSE SkipToEndExec(toks, i + 1)

Resource(name, type, operation, location) ==
    [ name |-> name, type |-> type, operation |-> operation, location |-> location ]

\* the outer loop of _extract_resources from token i on, `found` being
\* program.resources so far
RECURSIVE ExtractResourcesFrom(_, _, _)
ExtractResourcesFrom(toks, i, found) ==
    IF i > Len(toks) THEN found
    ELSE IF /\ toks[i].type = "KEYWORD"
            /\ UpperValue(toks[i]) = "EXEC"
            /\ i + 1 <= Len(toks)
    THEN LET resource_type == UpperValue(toks[i + 1])
             block == IF resource_type \in { "SQL", "CICS", "MQ" }
                      THEN ScanExecBlock(toks, i + 2, NameKeywords(resource_type),
                                         None, None)
                      ELSE [ operation |-> None, resource_name |-> None ]
             emitted ==
                 IF resource_type # None /\ block.operation # None
                 THEN Append(found,
                          Resource(IF block.resource_name # None
                                   THEN block.resource_name ELSE "UNKNOWN",
                                   resource_type, block.operation,
                                   <<toks[i].line, toks[i].column>>))
                 ELSE found
         IN  ExtractResourcesFrom(toks, SkipToEndExec(toks, i) + 1, emitted)
    ELSE ExtractResourcesFrom(toks, i + 1, found)

\* self._extract_resources()
ExtractResources ==
    /\ parse_pc = "resources"
    /\ program_resources' = ExtractResourcesFrom(tokens, 1, program_resources)
    /\ parse_pc' = "maps"
    /\ UNCHANGED <<source, tokenizerVars, scopeVars, program_files, program_calls, maps_used,
                   data_structures>>
    /\ UNCHANGED <<analyzerVars, callVars, historyVars, dirVars>>

----------------------------------------------------------------------------
(* CobolParser._extract_maps.  (_extract_copybooks, which runs before it,   *)
(* fills program.copybooks only and is left out.)                           *)

\* the loop over an EXEC CICS block from token j on: the map names found
\* and whether one was found
RECURSIVE MapsInBlock(_, _, _)
MapsInBlock(toks, j, block) ==
    IF j > Len(toks) \/ UpperValue(toks[j]) = "END-EXEC" THEN block
    ELSE IF /\ UpperValue(toks[j]) \in { "SEND", "RECEIVE" }
            /\ j + 1 <= Len(toks)
            /\ UpperValue(toks[j + 1]) = "MAP"
            /\ j + 2 <= Len(toks)
    THEN MapsInBlock(toks, j + 1,
             [ names |-> block.names \cup { UpperValue(toks[j + 2]) },
               map_found |-> TRUE ])
    ELSE MapsInBlock(toks, j + 1, block)

\* "Look for SEND MAP, RECEIVE MAP in CICS programs": the condition of the
\* first branch
IsBareMap(toks, i) ==
    /\ toks[i].type = "KEYWORD"
    /\ UpperValue(toks[i]) \in { "SEND", "RECEIVE" }
    /\ i + 1 <= Len(toks)
    /\ toks[i + 1].type = "KEYWORD"
    /\ UpperValue(toks[i + 1]) = "MAP"
    /\ i + 2 <= Len(toks)

\* "Also look for EXEC CICS SEND MAP": the condition of the second branch
IsExecCics(toks, i) ==
    /\ toks[i].type = "KEYWORD"
    /\ UpperValue(toks[i]) = "EXEC"
    /\ i + 1 <= Len(toks)
    /\ UpperValue(toks[i + 1]) = "CICS"

\* the loop of _extract_maps from token i on, `found` being
\* program.maps_used so far
RECURSIVE ExtractMapsFrom(_, _, _)
ExtractMapsFrom(toks, i, found) ==
    IF i > Len(toks) THEN found
    ELSE IF IsBareMap(toks, i)
    THEN ExtractMapsFrom(toks, i + 1, found \cup { UpperValue(toks[i + 2]) })
    ELSE IF IsExecCics(toks, i)
    THEN LET block == MapsInBlock(toks, i + 2, [ names |-> {}, map_found |-> FALSE ])
         IN  ExtractMapsFrom(toks,
                 IF block.map_found THEN SkipToEndExec(toks, i) + 1 ELSE i + 1,
                 found \cup block.names)
    ELSE ExtractMapsFrom(toks, i + 1, found)

\* self._extract_maps()
ExtractMaps ==
    /\ parse_pc = "maps"
    /\ maps_used' = ExtractMapsFrom(tokens, 1, maps_used)
    /\ parse_pc' = "done"
    /\ UNCHANGED <<source, tokenizerVars, scopeVars, program_files, program_calls,
                   program_resources, data_structures>>
    /\ UNCHANGED <<analyzerVars, callVars, historyVars, dirVars>>

----------------------------------------------------------------------------
(* CobolLogicExtractor.extract_logic_for_llm: "Process data structures"    *)

\* mutant of Children: the prefix has to end at a hyphen of the child's name
ChildrenAtHyphen(items, item) ==
    { child \in Range(items) :
        child.level > 1 /\ IsPrefix(Append(item.name, "-"), child.name) }

\* "Find child items":
\* `child.level > 1 and child.name.startswith(item.name)`
Children(items, item) ==
    { child \in Range(items) : child.level > 1 /\ IsPrefix(item.name, child.name) }

\* "Find main data items (level 01)"
MainItems(items) == { item \in Range(items) : item.level = 1 }

\* one entry of logic_data["data_structures"]
DataStructure(item, children) ==
    [ name |-> item.name, level |-> item.level, picture |-> item.picture,
      usage |-> item.usage,
      children |-> { [ name |-> child.name, level |-> child.level,
                       picture |-> child.picture, usage |-> child.usage ] :
                     child \in children } ]

\* the entries of logic_data["data_structures"] for the parsed program; the
\* model keeps the entries and each entry's children as sets, without the
\* order of the lists
ExtractLogicForLlm ==
    /\ parse_pc = "done"
    /\ data_structures' =
           { DataStructure(item, Children(data_items, item)) :
               item \in MainItems(data_items) }
    /\ parse_pc' = "extracted"
    /\ UNCHANGED <<source, tokenizerVars, scopeVars, program_files, program_calls,
                   program_resources, maps_used>>
    /\ UNCHANGED <<analyzerVars, callVars, historyVars, dirVars>>

----------------------------------------------------------------------------
(* SpecParse: one source text is tokenized and the passes run on its       *)
(* tokens.  The text is one of the sample texts below, or a single line    *)
(* made of a sequence area (or a part of one) and at most MaxCodeLen       *)
(* characters from column 7 on.                                            *)

\* the length of a generated line from column 7 on
MaxCodeLen == 3

\* the characters of generated lines: blank, comment and operator marks, a
\* letter, a hyphen, a digit, a dot, a quote and a character of no pattern
CodeChars == { " ", "*", "/", "a", "-", "1", ".", "\"", "#" }

\* columns 1 to 6
SequenceAreas ==
    { <<"0", "0", "0", "1", "0", "0">>, <<" ", "*", "a", "1", ".", " ">> }

GeneratedLines ==
    { area \o code :
        area \in SequenceAreas,
        code \in UNION { [1..n -> CodeChars] : n \in 0..MaxCodeLen } }
    \cup { SubSeq(area, 1, n) : area \in SequenceAreas, n \in 0..5 }

\*   |       EXEC SQL SELECT * FROM CUSTOMER END-EXEC|
SrcSelectStar ==
    << <<" "," "," "," "," "," "," ","E","X","E","C"," ","S","Q","L"," ","S","E","L","E","C",
        "T"," ","*"," ","F","R","O","M"," ","C","U","S","T","O","M","E","R"," ","E","N","D",
        "-","E","X","E","C">> >>

\*   |000100 EXEC SQL SELECT NAME FROM CUSTOMER END-EXEC|
SrcSelectName ==
    << <<"0","0","0","1","0","0"," ","E","X","E","C"," ","S","Q","L"," ","S","E","L","E","C",
        "T"," ","N","A","M","E"," ","F","R","O","M"," ","C","U","S","T","O","M","E","R"," ",
        "E","N","D","-","E","X","E","C">> >>

\*   |000100* sample program|
\*   |000200|
\*   |000300     CALL "SUBPROG" USING (WS-A).|
\*   |000400     EXEC CICS SEND MAP #M1 END-EXEC|
\*   |      *|
\*   |000600     COMPUTE A = B / 2.5|
SrcSample ==
    << <<"0","0","0","1","0","0","*"," ","s","a","m","p","l","e"," ","p","r","o","g","r","a",
        "m">>,
      <<"0","0","0","2","0","0">>,
      <<"0","0","0","3","0","0"," "," "," "," "," ","C","A","L","L"," ","\"","S","U","B",
        "P","R","O","G","\""," ","U","S","I","N","G"," ","(","W","S","-","A",")",".">>,
      <<"0","0","0","4","0","0"," "," "," "," "," ","E","X","E","C"," ","C","I","C","S"," ",
        "S","E","N","D"," ","M","A","P"," ","#","M","1"," ","E","N","D","-","E","X","E","C">>,
      <<" "," "," "," "," "," ","*">>,
      <<"0","0","0","6","0","0"," "," "," "," "," ","C","O","M","P","U","T","E"," ","A"," ",
        "="," ","B"," ","/"," ","2",".","5">> >>

\* CALL with a literal, an identifier, lower-case words and parameters, an
\* empty literal, and no target
\*   |       CALL "SUBPROG"|
\*   |000200 CALL WS-PROGRAM-NAME|
\*   |       call ws-x using a b|
\*   |       CALL ""|
\*   |       CALL|
SrcCalls ==
    << <<" "," "," "," "," "," "," ","C","A","L","L"," ","\"","S","U","B","P","R","O","G",
        "\"">>,
      <<"0","0","0","2","0","0"," ","C","A","L","L"," ","W","S","-","P","R","O","G","R","A",
        "M","-","N","A","M","E">>,
      <<" "," "," "," "," "," "," ","c","a","l","l"," ","w","s","-","x"," ","u","s","i","n",
        "g"," ","a"," ","b">>,
      <<" "," "," "," "," "," "," ","C","A","L","L"," ","\"","\"">>,
      <<" "," "," "," "," "," "," ","C","A","L","L">> >>

\* an EXEC block that END-EXEC closes, then one that nothing closes
\*   |       EXEC CICS SEND END-EXEC|
\*   |       EXEC SQL SELECT NAME FROM CUSTOMER|
SrcUnterminated ==
    << <<" "," "," "," "," "," "," ","E","X","E","C"," ","C","I","C","S"," ","S","E","N","D",
        " ","E","N","D","-","E","X","E","C">>,
      <<" "," "," "," "," "," "," ","E","X","E","C"," ","S","Q","L"," ","S","E","L","E","C",
        "T"," ","N","A","M","E"," ","F","R","O","M"," ","C","U","S","T","O","M","E","R">> >>

\* a procedure division with a section and two paragraphs
\*   |       PROCEDURE DIVISION.|
\*   |       MAIN SECTION.|
\*   |       PARA-1.|
\*   |           DISPLAY X.|
\*   |       PARA-2.|
\*   |           STOP RUN.|
SrcProcedure ==
    << <<" "," "," "," "," "," "," ","P","R","O","C","E","D","U","R","E"," ","D","I","V","I",
        "S","I","O","N",".">>,
      <<" "," "," "," "," "," "," ","M","A","I","N"," ","S","E","C","T","I","O","N",".">>,
      <<" "," "," "," "," "," "," ","P","A","R","A","-","1",".">>,
      <<" "," "," "," "," "," "," "," "," "," "," ","D","I","S","P","L","A","Y"," ","X",".">>,
      <<" "," "," "," "," "," "," ","P","A","R","A","-","2",".">>,
      <<" "," "," "," "," "," "," "," "," "," "," ","S","T","O","P"," ","R","U","N",".">> >>

\* data items whose clause keyword ends the line, and one with its clauses
\* on its line
\*   |       DATA DIVISION.|
\*   |       01 A PIC|
\*   |       X.|
\*   |       05 B OCCURS|
\*   |       01 C VALUE|
\*   |      * note|
\*   |       05 D PIC X OCCURS 10 USAGE|
SrcData ==
    << <<" "," "," "," "," "," "," ","D","A","T","A"," ","D","I","V","I","S","I","O","N",".">>,
      <<" "," "," "," "," "," "," ","0","1"," ","A"," ","P","I","C">>,
      <<" "," "," "," "," "," "," ","X",".">>,
      <<" "," "," "," "," "," "," ","0","5"," ","B"," ","O","C","C","U","R","S">>,
      <<" "," "," "," "," "," "," ","0","1"," ","C"," ","V","A","L","U","E">>,
      <<" "," "," "," "," "," ","*"," ","n","o","t","e">>,
      <<" "," "," "," "," "," "," ","0","5"," ","D"," ","P","I","C"," ","X"," ","O","C","C",
        "U","R","S"," ","1","0"," ","U","S","A","G","E">> >>

\* two records whose names share a prefix
\*   |       DATA DIVISION.|
\*   |       01 CUST-REC.|
\*   |       05 CUST-REC-ID PIC X.|
\*   |       01 CUST-RECALL.|
\*   |       05 CUST-RECALL-F PIC 9.|
SrcCustRec ==
    << <<" "," "," "," "," "," "," ","D","A","T","A"," ","D","I","V","I","S","I","O","N",".">>,
      <<" "," "," "," "," "," "," ","0","1"," ","C","U","S","T","-","R","E","C",".">>,
      <<" "," "," "," "," "," "," ","0","5"," ","C","U","S","T","-","R","E","C","-","I","D",
        " ","P","I","C"," ","X",".">>,
      <<" "," "," "," "," "," "," ","0","1"," ","C","U","S","T","-","R","E","C","A","L","L",
        ".">>,
      <<" "," "," "," "," "," "," ","0","5"," ","C","U","S","T","-","R","E","C","A","L","L",
        "-","F"," ","P","I","C"," ","9",".">> >>

\* three divisions
\*   |       IDENTIFICATION DIVISION.|
\*   |       PROGRAM-ID. P1.|
\*   |       DATA DIVISION.|
\*   |       01 A PIC X.|
\*   |       PROCEDURE DIVISION.|
\*   |           STOP RUN.|
SrcDivisions ==
    << <<" "," "," "," "," "," "," ","I","D","E","N","T","I","F","I","C","A","T","I","O","N",
        " ","D","I","V","I","S","I","O","N",".">>,
      <<" "," "," "," "," "," "," ","P","R","O","G","R","A","M","-","I","D","."," ","P","1",
        ".">>,
      <<" "," "," "," "," "," "," ","D","A","T","A"," ","D","I","V","I","S","I","O","N",".">>,
      <<" "," "," "," "," "," "," ","0","1"," ","A"," ","P","I","C"," ","X",".">>,
      <<" "," "," "," "," "," "," ","P","R","O","C","E","D","U","R","E"," ","D","I","V","I",
        "S","I","O","N",".">>,
      <<" "," "," "," "," "," "," "," "," "," "," ","S","T","O","P"," ","R","U","N",".">> >>

\* a procedure division whose paragraphs are in no section
\*   |       PROCEDURE DIVISION.|
\*   |       MAIN-PARA.|
\*   |           STOP RUN.|
SrcParagraphs ==
    << <<" "," "," "," "," "," "," ","P","R","O","C","E","D","U","R","E"," ","D","I","V","I",
        "S","I","O","N",".">>,
      <<" "," "," "," "," "," "," ","M","A","I","N","-","P","A","R","A",".">>,
      <<" "," "," "," "," "," "," "," "," "," "," ","S","T","O","P"," ","R","U","N",".">> >>

\* an OPEN statement, and a statement that names no file
\*   |       PROCEDURE DIVISION.|
\*   |           OPEN INPUT F1.|
\*   |           MOVE A TO B.|
SrcFileVerbs ==
    << <<" "," "," "," "," "," "," ","P","R","O","C","E","D","U","R","E"," ","D","I","V","I",
        "S","I","O","N",".">>,
      <<" "," "," "," "," "," "," "," "," "," "," ","O","P","E","N"," ","I","N","P","U","T",
        " ","F","1",".">>,
      <<" "," "," "," "," "," "," "," "," "," "," ","M","O","V","E"," ","A"," ","T","O"," ",
        "B",".">> >>

\* SELECT entries: clauses before the dot, a dot right after the file name,
\* an entry that the next SELECT ends, and an entry that ends the text
\*   |       SELECT F1 ACCESS MODE RANDOM.|
\*   |       SELECT F2.|
\*   |       ACCESS MODE DYNAMIC.|
\*   |       SELECT F3 ORGANIZATION INDEXED|
\*   |       SELECT F4 RECORD KEY K4.|
SrcSelect ==
    << <<" "," "," "," "," "," "," ","S","E","L","E","C","T"," ","F","1"," ","A","C","C","E",
        "S","S"," ","M","O","D","E"," ","R","A","N","D","O","M",".">>,
      <<" "," "," "," "," "," "," ","S","E","L","E","C","T"," ","F","2",".">>,
      <<" "," "," "," "," "," "," ","A","C","C","E","S","S"," ","M","O","D","E"," ","D","Y",
        "N","A","M","I","C",".">>,
      <<" "," "," "," "," "," "," ","S","E","L","E","C","T"," ","F","3"," ","O","R","G","A",
        "N","I","Z","A","T","I","O","N"," ","I","N","D","E","X","E","D">>,
      <<" "," "," "," "," "," "," ","S","E","L","E","C","T"," ","F","4"," ","R","E","C","O",
        "R","D"," ","K","E","Y"," ","K","4",".">> >>

\* EXEC blocks with each kind of word that precedes a resource name
\*   |       EXEC SQL UPDATE CUSTOMER SET NAME = 1 END-EXEC|
\*   |       EXEC CICS START TRANSID T1 END-EXEC|
\*   |       EXEC MQ OPEN QNAME Q1 END-EXEC|
\*   |       EXEC CICS READ FILE F1 END-EXEC|
\*   |       EXEC SQL DELETE FROM ORDERS END-EXEC|
SrcExecNames ==
    << <<" "," "," "," "," "," "," ","E","X","E","C"," ","S","Q","L"," ","U","P","D","A","T",
        "E"," ","C","U","S","T","O","M","E","R"," ","S","E","T"," ","N","A","M","E"," ","=",
        " ","1"," ","E","N","D","-","E","X","E","C">>,
      <<" "," "," "," "," "," "," ","E","X","E","C"," ","C","I","C","S"," ","S","T","A","R",
        "T"," ","T","R","A","N","S","I","D"," ","T","1"," ","E","N","D","-","E","X","E","C">>,
      <<" "," "," "," "," "," "," ","E","X","E","C"," ","M","Q"," ","O","P","E","N"," ","Q",
        "N","A","M","E"," ","Q","1"," ","E","N","D","-","E","X","E","C">>,
      <<" "," "," "," "," "," "," ","E","X","E","C"," ","C","I","C","S"," ","R","E","A","D",
        " ","F","I","L","E"," ","F","1"," ","E","N","D","-","E","X","E","C">>,
      <<" "," "," "," "," "," "," ","E","X","E","C"," ","S","Q","L"," ","D","E","L","E","T",
        "E"," ","F","R","O","M"," ","O","R","D","E","R","S"," ","E","N","D","-","E","X","E",
        "C">> >>

\* EXEC blocks of another sublanguage, with an EXEC inside, and without a
\* keyword inside
\*   |       EXEC DLI READ SEG1 END-EXEC|
\*   |       EXEC SQL SELECT A EXEC CICS SEND END-EXEC|
\*   |       EXEC CICS SEND END-EXEC|
\*   |       EXEC SQL X END-EXEC|
SrcExecBlocks ==
    << <<" "," "," "," "," "," "," ","E","X","E","C"," ","D","L","I"," ","R","E","A","D"," ",
        "S","E","G","1"," ","E","N","D","-","E","X","E","C">>,
      <<" "," "," "," "," "," "," ","E","X","E","C"," ","S","Q","L"," ","S","E","L","E","C",
        "T"," ","A"," ","E","X","E","C"," ","C","I","C","S"," ","S","E","N","D"," ","E","N",
        "D","-","E","X","E","C">>,
      <<" "," "," "," "," "," "," ","E","X","E","C"," ","C","I","C","S"," ","S","E","N","D",
        " ","E","N","D","-","E","X","E","C">>,
      <<" "," "," "," "," "," "," ","E","X","E","C"," ","S","Q","L"," ","X"," ","E","N","D",
        "-","E","X","E","C">> >>

\* a bare SEND MAP, and RECEIVE MAP in an EXEC CICS block
\*   |       SEND MAP M1|
\*   |       EXEC CICS RECEIVE MAP m2 END-EXEC|
SrcMaps ==
    << <<" "," "," "," "," "," "," ","S","E","N","D"," ","M","A","P"," ","M","1">>,
      <<" "," "," "," "," "," "," ","E","X","E","C"," ","C","I","C","S"," ","R","E","C","E",
        "I","V","E"," ","M","A","P"," ","m","2"," ","E","N","D","-","E","X","E","C">> >>

\* arithmetic statements
\*   |       COMPUTE A = B * C|
\*   |       COMPUTE D = E + F - 1 / 2|
\*   |       IF A < B > C|
SrcCompute ==
    << <<" "," "," "," "," "," "," ","C","O","M","P","U","T","E"," ","A"," ","="," ","B"," ",
        "*"," ","C">>,
      <<" "," "," "," "," "," "," ","C","O","M","P","U","T","E"," ","D"," ","="," ","E"," ",
        "+"," ","F"," ","-"," ","1"," ","/"," ","2">>,
      <<" "," "," "," "," "," "," ","I","F"," ","A"," ","<"," ","B"," ",">"," ","C">> >>

\* the level numbers of the data item lines: integers, and a decimal number
LevelTexts == { <<"0", "1">>, <<"7">>, <<"1", ".", "5">> }

\* what follows the word OCCURS: integers, an identifier, a decimal number,
\* a literal of digits, a sign, and a dot
OccursTexts ==
    { <<"3">>, <<"1", "0">>, <<"N">>, <<"2", ".", "5">>, <<"\"", "4", "\"">>,
      <<"-", "2">>, <<".">> }

\* a data division with an item of each level number and OCCURS value,
\* followed by an item with a decimal level number and by one more item
\*   |       DATA DIVISION.|
\*   |       <level> B OCCURS <value>|
\*   |       1.5 D OCCURS 2|
\*   |       05 C PIC 9.|
DataSources ==
    { << <<" "," "," "," "," "," "," ","D","A","T","A"," ","D","I","V","I","S","I","O","N",".">>,
         <<" "," "," "," "," "," "," ">> \o level
             \o <<" ","B"," ","O","C","C","U","R","S"," ">> \o occurs,
         <<" "," "," "," "," "," "," ","1",".","5"," ","D"," ","O","C","C","U","R","S"," ","2">>,
         <<" "," "," "," "," "," "," ","0","5"," ","C"," ","P","I","C"," ","9",".">> >> :
        level \in LevelTexts, occurs \in OccursTexts }

SampleSources ==
    { SrcSelectStar, SrcSelectName, SrcSample, SrcCalls, SrcUnterminated, SrcProcedure,
      SrcParagraphs, SrcData, SrcCustRec, SrcDivisions, SrcFileVerbs, SrcSelect,
      SrcExecNames, SrcExecBlocks, SrcMaps, SrcCompute }

\* what follows the word CALL on a line: a literal, an empty literal, an
\* identifier in lower and in upper case, a number, a keyword, a dot, a
\* literal in single quotes, a parenthesis, and a literal or an identifier
\* with a USING clause
CallOperands ==
    { <<"\"", "S", "\"">>, <<"\"", "\"">>, <<"w", "s">>, <<"W", "-", "1">>, <<"1">>,
      <<"T", "O">>, <<".">>, <<"'", "S", "'">>, <<"(", "S", ")">>,
      <<"\"", "S", "\"", " ", "U", "S", "I", "N", "G", " ", "a", " ", "1", " ", "B">>,
      <<"W", " ", "u", "s", "i", "n", "g", " ", "\"", "a", "\"", " ", "b">> }

\* one line with a CALL statement, the word in upper or in lower case
CallSources ==
    { << <<" ", " ", " ", " ", " ", " ", " ">> \o word \o <<" ">> \o operand >> :
        word \in { <<"C", "A", "L", "L">>, <<"c", "a", "l", "l">> },
        operand \in CallOperands }

Sources ==
    { <<line>> : line \in GeneratedLines } \cup CallSources \cup DataSources
        \cup SampleSources

InitParse ==
    /\ InitAnalyzer
    /\ InitDir
    /\ source \in Sources
    /\ parse_pc = "tokenize"
    /\ current_line = 0
    /\ current_column = 0
    /\ line_content = <<>>
    /\ position = 0
    /\ tokens = <<>>
    /\ token_index = 0
    /\ current_division = NoDivision
    /\ current_section = NoSection
    /\ current_paragraph = NoParagraph
    /\ divisions = EmptyDict
    /\ data_items = EmptyDict
    /\ program_files = <<>>
    /\ program_calls = <<>>
    /\ program_resources = <<>>
    /\ maps_used = {}
    /\ data_structures = {}

NextParse ==
    \/ TokenizeNextLine
    \/ TokenizeScan
    \/ TokenizeReturn
    \/ ParseDivisionsStep
    \/ ParseDivisionsClose
    \/ ExtractFileReferences
    \/ ExtractProgramCalls
    \/ ExtractResources
    \/ ExtractMaps
    \/ ExtractLogicForLlm

SpecParse == InitParse /\ [][NextParse]_vars

----------------------------------------------------------------------------
(* SpecTokenize: CobolTokenizer.tokenize alone, run to its end, on a text   *)
(* of one generated line, of one line with a CALL statement, or of two      *)
(* short lines.                                                            *)

\* an empty line, a sequence area alone, a comment line, a line of
\* characters that no pattern matches, and a line of a word and a literal
\* that is not closed
ShortLines ==
    { <<>>,
      <<"0", "0", "0", "1", "0", "0">>,
      <<" ", " ", " ", " ", " ", " ", "*", " ", "c">>,
      <<" ", " ", " ", " ", " ", " ", " ", "#", "@">>,
      <<"0", "0", "0", "2", "0", "0", " ", "a", " ", "\"", "b">> }

TokenizeSources ==
    { <<line>> : line \in GeneratedLines } \cup CallSources
        \cup { <<first, second>> : first \in ShortLines, second \in ShortLines }

InitTokenize ==
    /\ InitAnalyzer
    /\ InitDir
    /\ source \in TokenizeSources
    /\ parse_pc = "tokenize"
    /\ current_line = 0
    /\ current_column = 0
    /\ line_content = <<>>
    /\ position = 0
    /\ tokens = <<>>
    /\ token_index = 0
    /\ current_division = NoDivision
    /\ current_section = NoSection
    /\ current_paragraph = NoParagraph
    /\ divisions = EmptyDict
    /\ data_items = EmptyDict
    /\ program_files = <<>>
    /\ program_calls = <<>>
    /\ program_resources = <<>>
    /\ maps_used = {}
    /\ data_structures = {}

NextTokenize ==
    \/ TokenizeNextLine
    \/ TokenizeScan
    \/ TokenizeReturn

\* tokenize is one synchronous call that nothing suspends or cancels: a
\* step that can be taken is taken
SpecTokenize == InitTokenize /\ [][NextTokenize]_vars /\ WF_vars(NextTokenize)

----------------------------------------------------------------------------
(* SpecScope: _parse_divisions on a token sequence.  The pass reads         *)
(* self.tokens, a list of Token (src/main.py:48-57); its branch for         *)
(* TokenType.SECTION is part of it, so the sequences below hold SECTION     *)
(* tokens next to the tokens CobolTokenizer produces (which gives the word  *)
(* SECTION the type KEYWORD).  A sequence is made of at most MaxLines       *)
(* lines, each one of the lines of ScopeLines.                              *)

\* the number of lines of a token sequence
MaxLines == 4

Word(type, text) == [ type |-> type, value |-> text ]

\* the lines: a division header of either name, a section header of either
\* name, an identifier that starts its line and is followed by a dot, an
\* identifier alone, and the word SECTION alone
ScopeLines ==
    { << Word("DIVISION", <<"P","R","O","C","E","D","U","R","E">>) >>,
      << Word("DIVISION", <<"D","A","T","A">>) >>,
      << Word("IDENTIFIER", <<"A">>), Word("SECTION", <<"S","E","C","T","I","O","N">>) >>,
      << Word("IDENTIFIER", <<"b">>), Word("SECTION", <<"S","E","C","T","I","O","N">>) >>,
      << Word("IDENTIFIER", <<"A">>), Word("PUNCTUATION", <<".">>) >>,
      << Word("IDENTIFIER", <<"b">>) >>,
      << Word("SECTION", <<"S","E","C","T","I","O","N">>) >> }

\* the column of the k-th word of a line whose words one blank separates,
\* the first one at column 8
RECURSIVE ColumnOf(_, _)
ColumnOf(words, k) ==
    IF k = 1 THEN 8 ELSE ColumnOf(words, k - 1) + Len(words[k - 1].value) + 1

LineTokens(words, line_num) ==
    [ k \in DOMAIN words |->
        Token(words[k].type, words[k].value, line_num, ColumnOf(words, k)) ]

RECURSIVE TokensOfLines(_, _)
TokensOfLines(lines, n) ==
    IF n = 0 THEN <<>>
    ELSE TokensOfLines(lines, n - 1) \o LineTokens(lines[n], n)

TokenStreams ==
    { TokensOfLines(lines, Len(lines)) :
        lines \in UNION { [1..n -> ScopeLines] : n \in 0..MaxLines } }

InitScope ==
    /\ InitAnalyzer
    /\ InitDir
    /\ source = <<>>
    /\ parse_pc = "divisions"
    /\ current_line = 0
    /\ current_column = 0
    /\ line_content = <<>>
    /\ position = 0
    /\ tokens \in TokenStreams
    /\ token_index = 0
    /\ current_division = NoDivision
    /\ current_section = NoSection
    /\ current_paragraph = NoParagraph
    /\ divisions = EmptyDict
    /\ data_items = EmptyDict
    /\ program_files = <<>>
    /\ program_calls = <<>>
    /\ program_resources = <<>>
    /\ maps_used = {}
    /\ data_structures = {}

NextScope ==
    \/ ParseDivisionsStep
    \/ ParseDivisionsClose

SpecScope == InitScope /\ [][NextScope]_vars

----------------------------------------------------------------------------
(* Properties of the analyzer, checked under Spec *)

\* the call is analyze_program of a file that could be read
AnalyzedOk == call.op = "analyze_program" /\ result.status = "ok"

\* every observed call target is a key, and a key that has not itself been
\* analyzed has an empty outgoing set
C2_TargetsAreKeys ==
    /\ \A e \in observed_calls : e[2] \in DOMAIN call_graph
    /\ \A t \in DOMAIN call_graph \ DOMAIN analyzed_programs : call_graph[t] = {}

\* C2: after any sequence of analyze_program calls every call target of every
\* program version analyzed so far is a key of the call graph, with an empty
\* outgoing set while it has not itself been analyzed; a key is never removed.
C2_ForwardNodes ==
    /\ []C2_TargetsAreKeys
    /\ [][DOMAIN call_graph \subseteq DOMAIN call_graph']_vars

\* a target is a key while it has not been analyzed, and a target of an
\* earlier version only is a key too
C2_Witness ==
    /\ \E e \in observed_calls :
           e[2] \notin DOMAIN analyzed_programs /\ e[2] \in DOMAIN call_graph
    /\ \E e \in observed_calls :
           /\ e[1] \in DOMAIN analyzed_programs
           /\ e[2] \notin CallTargets(analyzed_programs[e[1]])

C4_ResourceIndexGrows ==
    [][ \A k \in DOMAIN resource_usage :
            /\ k \in DOMAIN resource_usage'
            /\ resource_usage[k] \subseteq resource_usage'[k] ]_vars

\* P is in the set of a resource its registered version does not use
C4_Witness ==
    \E k \in DOMAIN resource_usage : \E p \in resource_usage[k] :
        /\ p \in DOMAIN analyzed_programs
        /\ k \notin ResourceKeys(analyzed_programs[p])

IsStatic(program) == \A i \in DOMAIN program.calls : ~program.calls[i].is_dynamic

\* C5: when the registered programs are A and B, A calling B statically and B
\* calling A statically, callersOf(B) = {A} and callersOf(A) = {B}, in whatever
\* order they were analyzed.
C5_MutualCallers ==
    \A a, b \in DOMAIN analyzed_programs :
        ( /\ a # b
          /\ DOMAIN analyzed_programs = {a, b}
          /\ CallTargets(analyzed_programs[a]) = {b}
          /\ CallTargets(analyzed_programs[b]) = {a}
          /\ IsStatic(analyzed_programs[a]) /\ IsStatic(analyzed_programs[b]) )
        => /\ FindCallerPrograms(b) = {a}
           /\ FindCallerPrograms(a) = {b}

\* A was analyzed before B, so that B was a forward node first
C5_Witness ==
    /\ program_order = <<"A", "B">>
    /\ CallTargets(analyzed_programs["A"]) = {"B"}
    /\ CallTargets(analyzed_programs["B"]) = {"A"}
    /\ IsStatic(analyzed_programs["A"]) /\ IsStatic(analyzed_programs["B"])
    /\ FindCallerPrograms("B") = {"A"}

\* C7: when the source file cannot be read, analyze_program raises and the
\* registry, the call graph and the resource index are as before the call.
C7_UnreadableChangesNothing ==
    [][ (call'.op = "analyze_program" /\ ~call'.file.readable)
            => /\ result'.status = "error"
               /\ UNCHANGED analyzerVars ]_vars

\* a failed call on an analyzer that holds programs
C7_Witness ==
    /\ call.op = "analyze_program" /\ ~call.file.readable
    /\ result.status = "error"
    /\ DOMAIN analyzed_programs # {}
    /\ \A p \in DOMAIN analyzed_programs : analyzed_programs[p].source_path # call.path

----------------------------------------------------------------------------
(* Properties of analyze_directory, checked under SpecDir *)

\* analyze_program for each of `files` in turn, from the fields `fields`
RECURSIVE AnalyzeAll(_, _)
AnalyzeAll(fields, files) ==
    IF files = <<>> THEN fields
    ELSE AnalyzeAll(Registered(fields, Parse(Head(files).path, Head(files).file)),
                    Tail(files))

\* the orders in which the files of `files` can be analyzed
Orders(files) ==
    { [ i \in DOMAIN files |-> files[p[i]] ] :
        p \in { q \in [DOMAIN files -> DOMAIN files] :
                  \A i, j \in DOMAIN files : i # j => q[i] # q[j] } }

NameOf(f) == ProgramName(f.path)

\* the names that more than one of the analyzed files derives
Colliding(files) ==
    { NameOf(files[i]) : i \in { k \in DOMAIN files :
          \E j \in DOMAIN files : j # k /\ NameOf(files[j]) = NameOf(files[k]) } }

C8_CobolFileNames ==
    { <<"A.CBL", "A">>, <<"A.cobol", "A">>, <<"B.cob", "B">>, <<"D.Cob", "D">> }

C8_TreeFileNames == { Str(dir_tree[i].file) : i \in DOMAIN dir_tree }

\* C8: analyze_directory registers exactly the files of the tree whose name
\* ends in .cbl, .cob or .cobol (case-insensitively), each under its base name
\* without extension: a tree with A.CBL, B.cob and C.txt ends with registry
\* keys exactly {A, B}.
C8_RegistersCobolFiles ==
    dir_pc = "returned" =>
        /\ DOMAIN analyzed_programs =
               { e[2] : e \in { x \in C8_CobolFileNames : x[1] \in C8_TreeFileNames } }
        /\ C8_TreeFileNames = {"A.CBL", "B.cob", "C.txt"}
               => DOMAIN analyzed_programs = {"A", "B"}

C8_Witness ==
    /\ dir_pc = "returned"
    /\ C8_TreeFileNames = {"A.CBL", "B.cob", "C.txt"}
    /\ DOMAIN analyzed_programs = {"A", "B"}

----------------------------------------------------------------------------
(* Properties of the tokenizer and the parser's passes, checked under      *)
(* SpecParse                                                               *)

Tokenized == parse_pc \notin { "idle", "tokenize" }

\* the tokens of source line n
TokensOfLine(n) == SelectSeq(tokens, LAMBDA t : t.line = n)

\* C1: parsing the line `EXEC SQL SELECT * FROM CUSTOMER END-EXEC` yields a
\* Resource of type SQL with operation SELECT and name CUSTOMER.
C1_SelectStarResource ==
    (parse_pc = "done" /\ source = SrcSelectStar)
        => \E i \in DOMAIN program_resources :
               /\ program_resources[i].type = "SQL"
               /\ program_resources[i].operation = "SELECT"
               /\ program_resources[i].name = "CUSTOMER"

HasStarAtColumn7(line) == Len(line) >= 7 /\ line[7] = "*"

\* C9: every source line with `*` at column 7, whatever its length and
\* whatever follows the `*`, gives exactly one token, of kind Comment.
C9_CommentLineOneToken ==
    Tokenized =>
        \A n \in DOMAIN source :
            HasStarAtColumn7(source[n])
                => /\ Len(TokensOfLine(n)) = 1
                   /\ TokensOfLine(n)[1].type = "COMMENT"

\* a line that ends with its `*` at column 7 and a line with text after it
C9_Witness ==
    /\ Tokenized
    /\ \E n \in DOMAIN source : HasStarAtColumn7(source[n]) /\ Len(source[n]) = 7
    /\ \E n \in DOMAIN source :
           /\ HasStarAtColumn7(source[n]) /\ Len(source[n]) > 8
           /\ Len(TokensOfLine(n)) = 1

BlankFrom(line, column) == \A k \in column..Len(line) : line[k] \in { " ", "\t" }

\* C10 as stated: a line whose columns 8 and onward are blank or absent gives
\* no token, whatever is in columns 1 to 7.
C10_BlankFromColumn8 ==
    Tokenized =>
        \A n \in DOMAIN source : BlankFrom(source[n], 8) => TokensOfLine(n) = <<>>

\* C10 amended: a line whose columns 7 and onward contain only whitespace (or
\* are absent) gives no token, whatever is in columns 1 to 6.
C10_BlankFromColumn7 ==
    Tokenized =>
        \A n \in DOMAIN source : BlankFrom(source[n], 7) => TokensOfLine(n) = <<>>

\* a line with characters in columns 1 to 6 and blanks from column 7 on
C10_Witness ==
    /\ Tokenized
    /\ \E n \in DOMAIN source :
           /\ Len(source[n]) > 7
           /\ BlankFrom(source[n], 7)
           /\ \E k \in 1..6 : source[n][k] \notin { " ", "\t" }
           /\ TokensOfLine(n) = <<>>

----------------------------------------------------------------------------
(* Properties of the call pass, checked under SpecParse *)

CallsExtracted == parse_pc \in { "resources", "maps", "done", "extracted" }

IsCallKeyword(token) == token.type = "KEYWORD" /\ UpperValue(token) = "CALL"

\* the ProgramCalls recorded for the CALL keyword `token`
CallsRecordedAt(token) ==
    SelectSeq(program_calls, LAMBDA c : c.location = <<token.line, token.column>>)

\* C11 as stated: every CALL keyword followed by a Literal has a ProgramCall
\* with is_dynamic = false and the literal text as target, and every CALL
\* keyword followed by an Identifier has a ProgramCall with is_dynamic = true
\* and the identifier as it is written as target.
C11_CallClassifiedByNextToken ==
    CallsExtracted =>
        \A i \in 1..(Len(tokens) - 1) :
            IsCallKeyword(tokens[i]) /\ tokens[i + 1].type \in { "LITERAL", "IDENTIFIER" }
            => \E k \in DOMAIN program_calls :
                   /\ program_calls[k].location = <<tokens[i].line, tokens[i].column>>
                   /\ program_calls[k].target = Str(tokens[i + 1].value)
                   /\ program_calls[k].is_dynamic = (tokens[i + 1].type = "IDENTIFIER")

\* C11, amended: a CALL keyword followed by a Literal of at least one
\* character has exactly one ProgramCall, static, its target the literal
\* text; a CALL keyword followed by an Identifier has exactly one
\* ProgramCall, dynamic, its target the identifier in upper case; a CALL
\* keyword followed by an empty literal, by a token of another type or by
\* nothing has no ProgramCall; and there is no other ProgramCall.
C11_CallClassified ==
    CallsExtracted =>
        /\ \A i \in DOMAIN tokens :
               IsCallKeyword(tokens[i]) =>
                   LET recorded == CallsRecordedAt(tokens[i])
                       next_type == IF i < Len(tokens) THEN tokens[i + 1].type ELSE "NONE"
                   IN  IF next_type = "LITERAL" /\ tokens[i + 1].value # <<>>
                       THEN /\ Len(recorded) = 1
                            /\ recorded[1].target = Str(tokens[i + 1].value)
                            /\ ~recorded[1].is_dynamic
                       ELSE IF next_type = "IDENTIFIER"
                       THEN /\ Len(recorded) = 1
                            /\ recorded[1].target = UpperValue(tokens[i + 1])
                            /\ recorded[1].is_dynamic
                       ELSE recorded = <<>>
        /\ \A k \in DOMAIN program_calls :
               \E i \in DOMAIN tokens :
                   /\ IsCallKeyword(tokens[i])
                   /\ program_calls[k].location = <<tokens[i].line, tokens[i].column>>

\* the calls of SrcCalls: SUBPROG static, WS-PROGRAM-NAME dynamic, WS-X
\* dynamic with its two parameters, nothing for `CALL ""` and for `CALL`
C11_Witness ==
    /\ CallsExtracted
    /\ source = SrcCalls
    /\ program_calls =
           << ProgramCall("SUBPROG", FALSE, <<>>, <<1, 8>>),
              ProgramCall("WS-PROGRAM-NAME", TRUE, <<>>, <<2, 8>>),
              ProgramCall("WS-X", TRUE, <<"A", "B">>, <<3, 8>>) >>

----------------------------------------------------------------------------
(* Properties of the scope pass, checked under SpecScope *)

ScopeClosed == parse_pc # "divisions"

\* the sections stored in division d
SectionsOf(d) == { divisions[d].sections[n] : n \in DOMAIN divisions[d].sections }

\* C12: at the end of the scope pass any two distinct sections stored in the
\* same division have disjoint line ranges: one ends before the other starts.
C12_SectionsDisjoint ==
    ScopeClosed =>
        \A d \in DOMAIN divisions :
            \A s1, s2 \in SectionsOf(d) :
                s1 # s2 => s1.end_line < s2.start_line \/ s2.end_line < s1.start_line

\* a division is stored with two sections, each of at least one line
C12_Witness ==
    /\ ScopeClosed
    /\ \E d \in DOMAIN divisions :
           \E s1, s2 \in SectionsOf(d) :
               /\ s1.name # s2.name
               /\ s1.start_line <= s1.end_line
               /\ s2.start_line <= s2.end_line

----------------------------------------------------------------------------
(* Properties of the data structures of extract_logic_for_llm, checked     *)
(* under SpecParse                                                         *)

Extracted == parse_pc = "extracted"

ChildNames(data_structure) == { child.name : child \in data_structure.children }

CUST_REC == <<"C","U","S","T","-","R","E","C">>
CUST_REC_ID == <<"C","U","S","T","-","R","E","C","-","I","D">>
CUST_RECALL == <<"C","U","S","T","-","R","E","C","A","L","L">>
CUST_RECALL_F == <<"C","U","S","T","-","R","E","C","A","L","L","-","F">>

\* C13 as stated: grouping is decided by name prefix alone, every other data
\* item whose name starts with the name of a level-01 item R is a child of R.
C13_GroupedByPrefixAlone ==
    Extracted =>
        \A r \in data_structures :
            \A item \in Range(data_items) :
                item.name # r.name /\ IsPrefix(r.name, item.name)
                => item.name \in ChildNames(r)

\* C13, amended: grouping is decided by level and name prefix: there is one
\* data structure for every level-01 item R, and its children are the data
\* items of a level above 1 whose name starts with the name of R; an item of
\* level 01 is no child of any item.
C13_GroupedByPrefixBelowLevel01 ==
    Extracted =>
        /\ { r.name : r \in data_structures } =
               { item.name : item \in { x \in Range(data_items) : x.level = 1 } }
        /\ \A r \in data_structures :
               \A item \in Range(data_items) :
                   item.name \in ChildNames(r)
                   <=> (item.level > 1 /\ IsPrefix(r.name, item.name))

\* level-05 CUST-REC-ID and level-05 CUST-RECALL-F are the children of
\* CUST-REC; level-01 CUST-RECALL is a data structure of its own
C13_Witness ==
    /\ Extracted
    /\ source = SrcCustRec
    /\ \E r \in data_structures :
           r.name = CUST_REC /\ ChildNames(r) = { CUST_REC_ID, CUST_RECALL_F }
    /\ \E r \in data_structures :
           r.name = CUST_RECALL /\ ChildNames(r) = { CUST_RECALL_F }

----------------------------------------------------------------------------
(* Termination of tokenize, checked under SpecTokenize *)

\* no pattern of PATTERNS matches at the start of s
NoPatternMatches(s) ==
    /\ WhitespaceMatch(s) = 0
    /\ CommentMatch(s) = 0
    /\ StringLiteralMatch(s) = 0
    /\ NumberMatch(s) = 0
    /\ IdentifierMatch(s) = 0
    /\ s[1] \notin OperatorChars \cup PunctuationChars \cup SpecialChars

\* an iteration of the per-line scan is about to run
Scanning == parse_pc = "tokenize" /\ position < Len(line_content)

\* C14: tokenize terminates on every input text (it returns; there is no
\* step that raises): each iteration of the per-line scan consumes at least
\* one character and stays within the line, and a character that no pattern
\* matches yields exactly one Unknown token holding that character, the scan
\* moving on by one.
C14_TokenizeTerminates ==
    /\ <>Tokenized
    /\ [][ Scanning =>
             /\ position' > position
             /\ position' <= Len(line_content)
             /\ NoPatternMatches(Drop(line_content, position)) =>
                    /\ tokens' = Append(tokens,
                                     Token("UNKNOWN", <<line_content[position + 1]>>,
                                           current_line, current_column))
                    /\ position' = position + 1 ]_vars

\* a line of three characters that no pattern matches has given three
\* Unknown tokens
C14_Witness ==
    /\ Tokenized
    /\ Len(source) = 1
    /\ Len(tokens) = 3
    /\ \A k \in 1..3 :
           /\ tokens[k].type = "UNKNOWN"
           /\ tokens[k].value = <<"#">>
           /\ tokens[k].column = 6 + k

----------------------------------------------------------------------------
(* Properties of the resource pass, checked under SpecParse *)

ResourcesExtracted == parse_pc \in { "maps", "done", "extracted" }

IsExecKeyword(token) == token.type = "KEYWORD" /\ UpperValue(token) = "EXEC"

\* no END-EXEC follows token i
Unterminated(i) ==
    \A j \in (i + 1)..Len(tokens) : UpperValue(tokens[j]) # "END-EXEC"

\* C15: for an EXEC block that has no END-EXEC before the end of the token
\* stream the resource pass ends (nothing is raised) and emits no Resource for
\* that block.
C15_NoResourceForUnterminatedBlock ==
    ResourcesExtracted =>
        \A i \in DOMAIN tokens :
            IsExecKeyword(tokens[i]) /\ Unterminated(i)
            => \A k \in DOMAIN program_resources :
                   program_resources[k].location # <<tokens[i].line, tokens[i].column>>

----------------------------------------------------------------------------
(* Properties of the queries, checked under SpecQuery *)

\* C16: in every reachable analyzer state callersOf(q) is the set of graph
\* keys p whose callee set holds q, calleesOf(p) is the callee set stored at
\* p, or the empty set when p is no key, so q is in calleesOf(p) exactly when
\* p is in callersOf(q); a query returns that set and changes neither the
\* registry nor the call graph nor the resource index.
C16_QueriesAreProjections ==
    /\ [](\A p, q \in QueryNames \cup DOMAIN call_graph :
              /\ q \in FindCalledPrograms(p) <=> p \in FindCallerPrograms(q)
              /\ q \in FindCalledPrograms(p) <=> (p \in DOMAIN call_graph /\ q \in call_graph[p])
              /\ p \notin DOMAIN call_graph => FindCalledPrograms(p) = {})
    /\ [][ call'.op = "find_caller_programs" =>
             /\ result'.names =
                    { p \in DOMAIN call_graph : call'.program_name \in call_graph[p] }
             /\ UNCHANGED analyzerVars ]_vars
    /\ [][ call'.op = "find_called_programs" =>
             /\ result'.names =
                    ( IF call'.program_name \in DOMAIN call_graph
                      THEN call_graph[call'.program_name] ELSE {} )
             /\ UNCHANGED analyzerVars ]_vars

\* A has been analyzed calling itself and B calling A: the callers of A are
\* asked for and are A and B
C16_Witness ==
    /\ call = [ op |-> "find_caller_programs", program_name |-> "A" ]
    /\ result.names = { "A", "B" }
    /\ "SUBPROG" \in DOMAIN call_graph
    /\ FindCalledPrograms("Z") = {}

----------------------------------------------------------------------------
(* Properties of the scope pass on source text, checked under SpecParse *)

ScopesParsed == parse_pc \notin { "idle", "tokenize", "divisions" }

\* the name of the division open when the loop is at token i: the value of
\* the last Division token before it, None when there is none
DivisionAt(i) ==
    LET before == { k \in 1..(i - 1) : tokens[k].type = "DIVISION" }
    IN  IF before = {} THEN None
        ELSE UpperValue(tokens[CHOOSE k \in before : \A j \in before : j <= k])

\* the sections and the paragraphs of the scope tree
StoredSections ==
    UNION { { divisions[d].sections[n] : n \in DOMAIN divisions[d].sections } :
              d \in DOMAIN divisions }

StoredParagraphs ==
    UNION { { section.paragraphs[n] : n \in DOMAIN section.paragraphs } :
              section \in StoredSections }

\* C17: when source text inside a division holds an identifier immediately
\* followed by the word SECTION, parsing it records a Section named by that
\* identifier in upper case, starting at the line of the word SECTION, in the
\* division open at that point.
C17_SectionRecorded ==
    ScopesParsed =>
        \A i \in 2..Len(tokens) :
            /\ UpperValue(tokens[i]) = "SECTION"
            /\ tokens[i - 1].type = "IDENTIFIER"
            /\ DivisionAt(i) # None
            => /\ DivisionAt(i) \in DOMAIN divisions
               /\ \E section \in StoredSections :
                      /\ section.name = UpperValue(tokens[i - 1])
                      /\ section.start_line = tokens[i].line

\* C18: whenever the current Division is PROCEDURE and an Identifier token is
\* the first token on its line and the following token is not SECTION, a
\* Paragraph named by that identifier and starting at that line is opened, and
\* it is in the scope tree when the parse ends.
C18_ParagraphRecorded ==
    ScopesParsed =>
        \A i \in 1..(Len(tokens) - 1) :
            /\ tokens[i].type = "IDENTIFIER"
            /\ DivisionAt(i) = "PROCEDURE"
            /\ (i = 1 \/ tokens[i - 1].line # tokens[i].line)
            /\ UpperValue(tokens[i + 1]) # "SECTION"
            => \E paragraph \in StoredParagraphs :
                   /\ paragraph.name = UpperValue(tokens[i])
                   /\ paragraph.start_line = tokens[i].line

\* the tokens on the line of a data item that follow a clause keyword of
\* that line
ClauseOperands(item, keywords) ==
    { j \in 2..Len(tokens) :
        /\ tokens[j].line = item.location[1]
        /\ tokens[j - 1].line = item.location[1]
        /\ UpperValue(tokens[j - 1]) \in keywords }

\* C20: the clause scan of a data item reads only tokens on the line of its
\* level number: picture, usage, value, redefines and occurs, when set, come
\* from a token of that line that follows the clause keyword on that line.
C20_ClausesFromSameLine ==
    ScopesParsed =>
        \A item \in Range(data_items) :
            /\ item.picture # Unset =>
                   \E j \in ClauseOperands(item, { "PIC", "PICTURE" }) :
                       item.picture = Set(Str(tokens[j].value))
            /\ item.usage # Unset =>
                   \E j \in ClauseOperands(item, { "USAGE" }) :
                       item.usage = Set(Str(tokens[j].value))
            /\ item.value # Unset =>
                   \E j \in ClauseOperands(item, { "VALUE" }) :
                       item.value = Set(Str(tokens[j].value))
            /\ item.redefines # Unset =>
                   \E j \in ClauseOperands(item, { "REDEFINES" }) :
                       item.redefines = Set(Str(tokens[j].value))
            /\ item.occurs # Unset =>
                   \E j \in ClauseOperands(item, { "OCCURS" }) :
                       item.occurs = OccursValue(tokens, j - 1)

----------------------------------------------------------------------------
(* The steps of the scope pass, checked under SpecScope *)

\* the loop is at a Division token
AtDivisionToken ==
    /\ parse_pc = "divisions"
    /\ token_index < Len(tokens)
    /\ tokens[token_index + 1].type = "DIVISION"

\* the loop has ended and the open structures are about to be closed
AtEndOfTokens == parse_pc = "divisions" /\ token_index = Len(tokens)

\* the open Paragraph, Section and Division are closed with end_line and
\* stored: the division in program_divisions with the sections it had and the
\* open section, the section with the paragraphs it had and the open paragraph
ClosedAndStored(program_divisions, end_line) ==
    IsOpen(current_division) =>
        /\ current_division.name \in DOMAIN program_divisions
        /\ LET division == program_divisions[current_division.name]
           IN  /\ division.name = current_division.name
               /\ division.start_line = current_division.start_line
               /\ division.end_line = end_line
               /\ DOMAIN division.sections =
                      DOMAIN current_division.sections
                          \cup ( IF IsOpen(current_section)
                                 THEN { current_section.name } ELSE {} )
               /\ \A n \in DOMAIN current_division.sections :
                      \/ (IsOpen(current_section) /\ n = current_section.name)
                      \/ division.sections[n] = current_division.sections[n]
               /\ IsOpen(current_section) =>
                      LET section == division.sections[current_section.name]
                      IN  /\ section.start_line = current_section.start_line
                          /\ section.end_line = end_line
                          /\ DOMAIN section.paragraphs =
                                 DOMAIN current_section.paragraphs
                                     \cup ( IF IsOpen(current_paragraph)
                                            THEN { current_paragraph.name } ELSE {} )
                          /\ IsOpen(current_paragraph) =>
                                 section.paragraphs[current_paragraph.name] =
                                     Paragraph(current_paragraph.name,
                                               current_paragraph.start_line, end_line)

\* C19: on every Division token the scope pass closes the open Paragraph,
\* the open Section and the open Division, each with end_line = the token's
\* line - 1, stores them, and starts a new Division at the token's line with
\* no Section and no Paragraph open; at the end of the token stream every
\* scope still open is closed with end_line = the last token's line and
\* stored.  A Paragraph is open only in an open Section, a Section only in
\* an open Division.
C19_ScopesClosed ==
    /\ [](/\ IsOpen(current_paragraph) => IsOpen(current_section)
          /\ IsOpen(current_section) => IsOpen(current_division))
    /\ [][ AtDivisionToken =>
             /\ ClosedAndStored(divisions', tokens[token_index + 1].line - 1)
             /\ current_division' =
                    Division(UpperValue(tokens[token_index + 1]),
                             tokens[token_index + 1].line, 0)
             /\ current_section' = NoSection
             /\ current_paragraph' = NoParagraph ]_vars
    /\ [][ AtEndOfTokens => ClosedAndStored(divisions', LastLine(tokens)) ]_vars

\* a Division token has just closed a division with a section and a
\* paragraph in it, all three ending at the line before the token
C19_Witness ==
    /\ parse_pc = "divisions"
    /\ token_index >= 1
    /\ tokens[token_index].type = "DIVISION"
    /\ current_division = Division(UpperValue(tokens[token_index]),
                                   tokens[token_index].line, 0)
    /\ \E d \in DOMAIN divisions :
           /\ divisions[d].end_line = tokens[token_index].line - 1
           /\ \E n \in DOMAIN divisions[d].sections :
                  /\ divisions[d].sections[n].end_line = tokens[token_index].line - 1
                  /\ \E m \in DOMAIN divisions[d].sections[n].paragraphs :
                         divisions[d].sections[n].paragraphs[m].end_line =
                             tokens[token_index].line - 1

----------------------------------------------------------------------------
(* Properties of the data items on source text, checked under SpecParse *)

\* the data item branch is taken at token i: a Number token followed by an
\* Identifier token while the DATA division is open
IsDataItemLine(i) ==
    /\ i + 1 <= Len(tokens)
    /\ tokens[i].type = "NUMBER"
    /\ tokens[i + 1].type = "IDENTIFIER"
    /\ DivisionAt(i) = "DATA"

\* int() accepts the text
IntegerText(text) == ParseInt(text).ok

\* no later data item with an integer level has the name of the one at i
LastOfItsName(i) ==
    \A k \in (i + 1)..Len(tokens) :
        ~ /\ IsDataItemLine(k)
          /\ IntegerText(tokens[k].value)
          /\ Upper(tokens[k + 1].value) = Upper(tokens[i + 1].value)

\* the word OCCURS follows the name of the data item at i on its line, with
\* a token after it
HasOccursClause(i) ==
    /\ i + 3 <= Len(tokens)
    /\ tokens[i + 2].line = tokens[i].line
    /\ UpperValue(tokens[i + 2]) = "OCCURS"

\* C21: a data item whose OCCURS value is not an integer is stored with
\* occurs = 0; a data item whose level is not an integer is skipped, and it
\* alone: the items with an integer level are stored, the loop goes on with
\* the next token and keeps what it stored.
C21_BadNumbersAreLocal ==
    /\ [](ScopesParsed =>
            \A i \in DOMAIN tokens :
                IsDataItemLine(i) =>
                    IF IntegerText(tokens[i].value)
                    THEN LastOfItsName(i) =>
                           /\ Upper(tokens[i + 1].value) \in DOMAIN data_items
                           /\ LET item == data_items[Upper(tokens[i + 1].value)]
                              IN  /\ item.location = <<tokens[i].line, tokens[i].column>>
                                  /\ HasOccursClause(i) /\ ~IntegerText(tokens[i + 3].value)
                                         => item.occurs = Set(0)
                    ELSE \A item \in Range(data_items) :
                             item.location # <<tokens[i].line, tokens[i].column>>)
    /\ [][parse_pc = "divisions" /\ token_index < Len(tokens)
              => /\ token_index' = token_index + 1
                 /\ parse_pc' = "divisions"
                 /\ DOMAIN data_items \subseteq DOMAIN data_items']_vars

\* a parse is over in which an item with a decimal level was skipped, an
\* item with an OCCURS value that is not an integer was stored, and an item
\* after the skipped one was stored
C21_Witness ==
    /\ ScopesParsed
    /\ \E i, k, m \in DOMAIN tokens :
           /\ IsDataItemLine(i) /\ ~IntegerText(tokens[i].value)
           /\ Upper(tokens[i + 1].value) \notin DOMAIN data_items
           /\ IsDataItemLine(k) /\ IntegerText(tokens[k].value)
           /\ HasOccursClause(k) /\ ~IntegerText(tokens[k + 3].value)
           /\ data_items[Upper(tokens[k + 1].value)].occurs = Set(0)
           /\ m > i
           /\ IsDataItemLine(m) /\ IntegerText(tokens[m].value)
           /\ Upper(tokens[m + 1].value) \in DOMAIN data_items

----------------------------------------------------------------------------
(* Properties of the file references on source text, checked under          *)
(* SpecParse                                                                *)

FilesExtracted == parse_pc \in { "calls", "resources", "maps", "done", "extracted" }

\* the SELECT entries: the tokens at which the first loop makes a
\* FileReference, which is program.files[EntryRank(i)]
SelectEntries ==
    { i \in 1..(Len(tokens) - 1) :
        /\ tokens[i].type = "KEYWORD"
        /\ UpperValue(tokens[i]) = "SELECT"
        /\ tokens[i + 1].type = "IDENTIFIER" }

EntryRank(i) == Cardinality({ k \in SelectEntries : k <= i })

FileVerbs == { "OPEN", "CLOSE", "READ", "WRITE", "REWRITE", "DELETE", "START" }

\* a keyword OPEN, CLOSE, READ, WRITE, REWRITE, DELETE or START precedes
\* token j on its line
FollowsFileVerb(j) ==
    \E i \in 1..(j - 1) :
        /\ tokens[i].line = tokens[j].line
        /\ tokens[i].type = "KEYWORD"
        /\ UpperValue(tokens[i]) \in FileVerbs

\* C22: the FileReferences that the second scan adds have access_mode
\* UNKNOWN and the name of an Identifier token that follows OPEN, CLOSE,
\* READ, WRITE, REWRITE, DELETE or START on its line; every such identifier
\* is the name of a file; an identifier on a line without such a verb is not
\* registered.
C22_UnknownOnlyAfterFileVerb ==
    FilesExtracted =>
        /\ \A k \in (Cardinality(SelectEntries) + 1)..Len(program_files) :
               /\ program_files[k].access_mode = "UNKNOWN"
               /\ \E j \in DOMAIN tokens :
                      /\ tokens[j].type = "IDENTIFIER"
                      /\ UpperValue(tokens[j]) = program_files[k].name
                      /\ FollowsFileVerb(j)
        /\ \A j \in DOMAIN tokens :
               tokens[j].type = "IDENTIFIER" /\ FollowsFileVerb(j)
                   => \E k \in DOMAIN program_files :
                          program_files[k].name = UpperValue(tokens[j])

\* where the SELECT entry at token i ends: at the first dot or SELECT after
\* the file name, or with the tokens
EntryEnd(i) ==
    LET stops == { k \in (i + 2)..Len(tokens) : UpperValue(tokens[k]) \in { ".", "SELECT" } }
    IN  IF stops = {} THEN Len(tokens) + 1
        ELSE CHOOSE k \in stops : \A other \in stops : k <= other

\* the clause keywords of the SELECT entry at token i
AccessClauses(i) ==
    { j \in (i + 2)..(EntryEnd(i) - 1) :
        /\ j + 2 <= Len(tokens)
        /\ UpperValue(tokens[j]) = "ACCESS"
        /\ UpperValue(tokens[j + 1]) = "MODE" }

OrganizationClauses(i) ==
    { j \in (i + 2)..(EntryEnd(i) - 1) :
        /\ j + 1 <= Len(tokens)
        /\ UpperValue(tokens[j]) = "ORGANIZATION" }

RecordKeyClauses(i) ==
    { j \in (i + 2)..(EntryEnd(i) - 1) :
        /\ j + 2 <= Len(tokens)
        /\ UpperValue(tokens[j]) = "RECORD"
        /\ UpperValue(tokens[j + 1]) = "KEY" }

Last(indexes) == CHOOSE j \in indexes : \A other \in indexes : other <= j

\* C23: the FileReference of a SELECT entry takes its clauses from the
\* tokens between the file name and the next SELECT or the first dot after
\* the file name, whichever comes first: access_mode is SEQUENTIAL when no
\* ACCESS MODE is there, and organization and record_key are unset when no
\* ORGANIZATION and no RECORD KEY is there.
C23_ClausesUpToFirstDot ==
    FilesExtracted =>
        \A i \in SelectEntries :
            LET ref == program_files[EntryRank(i)]
            IN  /\ ref.name = UpperValue(tokens[i + 1])
                /\ ref.access_mode =
                       IF AccessClauses(i) = {} THEN "SEQUENTIAL"
                       ELSE UpperValue(tokens[Last(AccessClauses(i)) + 2])
                /\ ref.organization =
                       IF OrganizationClauses(i) = {} THEN Unset
                       ELSE Set(UpperValue(tokens[Last(OrganizationClauses(i)) + 1]))
                /\ ref.record_key =
                       IF RecordKeyClauses(i) = {} THEN Unset
                       ELSE Set(UpperValue(tokens[Last(RecordKeyClauses(i)) + 2]))

----------------------------------------------------------------------------
(* Properties of the EXEC blocks on source text, checked under SpecParse *)

\* where the EXEC block that starts at token i ends: at the first END-EXEC
\* after it, or with the tokens
BlockEnd(i) ==
    LET ends == { k \in (i + 1)..Len(tokens) : UpperValue(tokens[k]) = "END-EXEC" }
    IN  IF ends = {} THEN Len(tokens) + 1
        ELSE CHOOSE k \in ends : \A other \in ends : k <= other

\* the EXEC keywords from token i on that start a block: an EXEC inside a
\* block belongs to that block
RECURSIVE BlockStartsFrom(_)
BlockStartsFrom(i) ==
    IF i >= Len(tokens) THEN {}
    ELSE IF IsExecKeyword(tokens[i]) THEN { i } \cup BlockStartsFrom(BlockEnd(i) + 1)
    ELSE BlockStartsFrom(i + 1)

\* the blocks that END-EXEC closes
ClosedBlocks == { i \in BlockStartsFrom(1) : BlockEnd(i) <= Len(tokens) }

\* the sublanguage of the block that starts at token i
BlockType(i) == UpperValue(tokens[i + 1])

\* the tokens inside the block that starts at token i, after the sublanguage
Inside(i) == (i + 2)..(BlockEnd(i) - 1)

ResourcesAt(i) ==
    { k \in DOMAIN program_resources :
        program_resources[k].location = <<tokens[i].line, tokens[i].column>> }

\* the words of the block at token i that a resource name follows
NameWords(i) ==
    { j \in Inside(i) : UpperValue(tokens[j]) \in NameKeywords(BlockType(i)) }

\* C24: in an SQL, CICS or MQ block the token after FROM, INTO, UPDATE or
\* TABLE (SQL), PROGRAM, TRANSID, QUEUE or FILE (CICS), QNAME or QUEUE (MQ)
\* is the name of the block's Resource, in upper case; the last such word of
\* the block decides.
C24_NameFollowsNameWord ==
    ResourcesExtracted =>
        \A i \in ClosedBlocks :
            NameWords(i) # {} =>
                \E k \in ResourcesAt(i) :
                    program_resources[k].name = UpperValue(tokens[Last(NameWords(i)) + 1])

\* the Keyword tokens inside the block that starts at token i
KeywordsInside(i) == { j \in Inside(i) : tokens[j].type = "KEYWORD" }

\* C25: every Resource comes from the EXEC that starts a block, no block
\* yields two, and a block closed by END-EXEC yields one exactly when a
\* Keyword token occurs inside it, whatever its sublanguage: its type is the
\* token after EXEC and its operation the first Keyword inside.  An EXEC
\* inside a block starts no Resource, and the blocks after it are processed.
C25_OneResourcePerBlock ==
    ResourcesExtracted =>
        /\ \A k \in DOMAIN program_resources :
               \E i \in BlockStartsFrom(1) : k \in ResourcesAt(i)
        /\ \A i \in BlockStartsFrom(1) : Cardinality(ResourcesAt(i)) <= 1
        /\ \A i \in ClosedBlocks :
               IF KeywordsInside(i) = {} THEN ResourcesAt(i) = {}
               ELSE \E k \in ResourcesAt(i) :
                        /\ program_resources[k].type = BlockType(i)
                        /\ program_resources[k].operation =
                               UpperValue(tokens[CHOOSE j \in KeywordsInside(i) :
                                                    \A other \in KeywordsInside(i) : j <= other])

----------------------------------------------------------------------------
(* Properties of the map pass on source text, checked under SpecParse *)

MapsExtracted == parse_pc \in { "done", "extracted" }

\* token j is outside every EXEC block
OutsideBlocks(j) == \A i \in BlockStartsFrom(1) : j < i \/ j > BlockEnd(i)

\* token j is inside an EXEC CICS block
InsideCicsBlock(j) ==
    \E i \in BlockStartsFrom(1) : j \in Inside(i) /\ BlockType(i) = "CICS"

\* C26: the token after `SEND MAP` or `RECEIVE MAP`, in upper case, is in
\* maps_used, both when the words stand outside any EXEC block and when they
\* stand inside an EXEC CICS block.
C26_MapNameAdded ==
    MapsExtracted =>
        \A j \in 1..(Len(tokens) - 2) :
            /\ UpperValue(tokens[j]) \in { "SEND", "RECEIVE" }
            /\ UpperValue(tokens[j + 1]) = "MAP"
            /\ OutsideBlocks(j) \/ InsideCicsBlock(j)
            => UpperValue(tokens[j + 2]) \in maps_used

----------------------------------------------------------------------------
(* Properties of the operator tokens, checked under SpecParse *)

\* C27: when the scan of a line is at + - * / = < or > from column 8 on, it
\* appends one Operator token that holds that character and goes on with the
\* next character, so that what follows on the line is tokenized too.
C27_OperatorIsOneToken ==
    [][ /\ Scanning
        /\ position >= 1
        /\ line_content[position + 1] \in OperatorChars
        => /\ tokens' = Append(tokens,
                            Token("OPERATOR", <<line_content[position + 1]>>,
                                  current_line, current_column))
           /\ position' = position + 1 ]_vars

----------------------------------------------------------------------------
(* Properties of a failing analyze_directory, checked under SpecDir *)

\* the file the loop of analyze_directory is at cannot be read
AtUnreadableFile ==
    /\ dir_pc = "analyzing"
    /\ cobol_files # <<>>
    /\ ~Head(cobol_files).file.readable

\* C28: analyze_directory does not catch the error of a file: the call ends
\* with that error at the first file that cannot be read, the fields are
\* those that the files before it left (each of them registered, with its
\* call targets and its resources), and no file after it is analyzed.
C28_ErrorEndsDirectory ==
    /\ [](dir_pc = "raised" =>
            /\ result.status = "error"
            /\ cobol_files # <<>>
            /\ Fields = AnalyzeAll(dir_start, dir_done)
            /\ \A i \in DOMAIN dir_done :
                   /\ NameOf(dir_done[i]) \in DOMAIN analyzed_programs
                   /\ \A k \in DOMAIN dir_done[i].file.resources :
                          NameOf(dir_done[i]) \in
                              resource_usage[ResourceKey(dir_done[i].file.resources[k])])
    /\ [][AtUnreadableFile
              => /\ dir_pc' = "raised"
                 /\ UNCHANGED <<analyzerVars, cobol_files, dir_done>>]_vars
    /\ [][dir_pc = "raised" => UNCHANGED vars]_vars

\* the second of three COBOL files could not be read: the first one is
\* registered and the third one is not
C28_Witness ==
    /\ dir_pc = "raised"
    /\ Len(dir_done) = 1
    /\ Len(cobol_files) = 2
    /\ NameOf(dir_done[1]) \in DOMAIN analyzed_programs
    /\ NameOf(cobol_files[2]) \notin DOMAIN analyzed_programs

----------------------------------------------------------------------------
(* Properties of the analyzer's fields, checked under Spec *)

\* C29: after any sequence of analyze_program calls, the callee set of every
\* registered program is exactly the set of call targets of the CobolProgram
\* that the registry holds for it.
C29_GraphMatchesRegistry ==
    \A p \in DOMAIN analyzed_programs :
        /\ p \in DOMAIN call_graph
        /\ call_graph[p] = CallTargets(analyzed_programs[p])

\* a program was analyzed again and an edge seen in its first analysis is
\* gone from its callee set
C29_Witness ==
    \E p \in DOMAIN analyzed_programs :
        /\ call_graph[p] # {}
        /\ call_graph[p] = CallTargets(analyzed_programs[p])
        /\ \E edge \in observed_calls : edge[1] = p /\ edge[2] \notin call_graph[p]

\* the keys of a dict that a step adds
NewKeys(before, after) == DOMAIN after \ DOMAIN before

\* C30: a successful analyze_program of P leaves the registry entry and the
\* callee set of every other key as they were, creates graph keys only for P
\* and, with an empty callee set, for the targets of P that were no keys, and
\* changes the sets of the resource index only by adding P.
C30_OtherProgramsUntouched ==
    [][AnalyzedOk' =>
          LET P == result'.program.name
          IN  /\ DOMAIN analyzed_programs' = DOMAIN analyzed_programs \cup { P }
              /\ \A Q \in DOMAIN analyzed_programs \ { P } :
                     analyzed_programs'[Q] = analyzed_programs[Q]
              /\ \A Q \in DOMAIN call_graph \ { P } :
                     Q \in DOMAIN call_graph' /\ call_graph'[Q] = call_graph[Q]
              /\ \A Q \in NewKeys(call_graph, call_graph') \ { P } :
                     Q \in CallTargets(result'.program) /\ call_graph'[Q] = {}
              /\ \A key \in DOMAIN resource_usage :
                     /\ key \in DOMAIN resource_usage'
                     /\ resource_usage[key] \subseteq resource_usage'[key]
                     /\ resource_usage'[key] \subseteq resource_usage[key] \cup { P }
              /\ \A key \in NewKeys(resource_usage, resource_usage') :
                     resource_usage'[key] = { P }]_vars

\* a program was analyzed while another one was registered with callees and
\* resources of its own, and a target of the analyzed program became a key
C30_Witness ==
    /\ AnalyzedOk
    /\ \E Q \in DOMAIN analyzed_programs :
           /\ Q # result.program.name
           /\ call_graph[Q] # {}
           /\ \E key \in DOMAIN resource_usage : resource_usage[key] = { Q }
    /\ \E target \in CallTargets(result.program) :
           /\ target \notin DOMAIN analyzed_programs
           /\ call_graph[target] = {}

====
